---- MODULE Spec2Model ----
(***************************************************************************)
(* Page-Proof-QA: the document ingestion pipeline                          *)
(* (backend/app/services/document_processing.py), the upload and ask       *)
(* routes (backend/app/api/routes/documents.py) and the grounded question  *)
(* answering engine (backend/app/services/qa.py) as one state machine over *)
(* the committed database tables, the ingestion transactions and the QA    *)
(* requests in flight.                                                     *)
(*                                                                         *)
(* Conventions                                                             *)
(*  - a nullable column holds NULL (<< >>) or Some(v) (<<v>>);             *)
(*  - coordinates are integers in hundredths of a PDF point;               *)
(*  - a text is the sequence of its words; a word is a name of Vocab and   *)
(*    the character-level functions of the code (len, startswith,          *)
(*    substring, SequenceMatcher.ratio) are tabulated for Vocab;           *)
(*  - scores are integers in ten-thousandths (Scale).                      *)
(***************************************************************************)
EXTENDS Integers, Sequences, FiniteSets, TLC

VARIABLES
    docs,        \* documents table: DocIds -> row ("absent" before the upload)
    pages,       \* committed rows of table pages
    spans,       \* committed rows of table spans
    chunks,      \* committed rows of table chunks
    nextPageId,  \* the sequence behind pages.id
    nextSpanId,  \* the sequence behind spans.id
    ingest,      \* DocIds -> the background task of the document and its transaction
    statusChanges, \* DocIds -> number of committed changes of documents.status (history)
    req,         \* the question answering request in flight, or the last one answered
    chunker,     \* one call of _chunk_span_window: its arguments and local variables
    fill,        \* the concurrent calls of _ensure_chunk_embeddings and their row locks
    func,        \* one call of a function of the pipeline: its arguments and its result
    llm          \* one call of _create_llm_json_response_for_model: its requests so far

vars == <<docs, pages, spans, chunks, nextPageId, nextSpanId, ingest, statusChanges, req,
          chunker, fill, func, llm>>

----------------------------------------------------------------------------
(* Bounds and program constants *)

MaxPages == 2

CHUNK_MAX_CHARS == 900
CHUNK_OVERLAP_SPANS == 20

\* "d0" was uploaded and ingested before the behaviour starts; "d1" is the
\* document the next upload creates.
DocIds == {"d0", "d1"}

NULL == << >>
Some(v) == <<v>>

Max(a, b) == IF a >= b THEN a ELSE b
Min(a, b) == IF a <= b THEN a ELSE b

RECURSIVE Flatten(_)
Flatten(ss) == IF Len(ss) = 0 THEN << >> ELSE Head(ss) \o Flatten(Tail(ss))

RECURSIVE SumSeq(_)
SumSeq(s) == IF Len(s) = 0 THEN 0 ELSE Head(s) + SumSeq(Tail(s))

SeqToSet(s) == {s[i] : i \in 1..Len(s)}

----------------------------------------------------------------------------
(* Texts *)

\* The words of the model's documents, questions and answers: lowercase and
\* alphanumeric, so str.lower, str.strip and _normalize_token leave them as
\* they are and re.findall(r"[a-zA-Z0-9]+") returns the words of a text.
Vocab == {"signed", "by", "patel", "order", "ordering", "doctor", "blob",
          "who", "the", "uncertain"}

\* len(text) of a word; "blob" stands for a 600-character unbroken token.
WordLen(w) ==
    CASE w = "signed" -> 6
      [] w = "by" -> 2
      [] w = "patel" -> 5
      [] w = "order" -> 5
      [] w = "ordering" -> 8
      [] w = "doctor" -> 6
      [] w = "blob" -> 600
      [] w = "who" -> 3
      [] w = "the" -> 3
      [] w = "uncertain" -> 9

\* a in b (Python's substring test) on Vocab.
IsSubstring(a, b) == a = b \/ (a = "order" /\ b = "ordering")

\* word.startswith(prefix) for the prefixes the code tests.
StartsWithSig(w) == w = "signed"
StartsWithS(w) == w = "signed"

\* round(1000 * SequenceMatcher(None, w, target).ratio()) on Vocab.
RatioSigned(w) ==
    CASE w = "signed" -> 1000
      [] w = "patel" -> 182
      [] w = "order" -> 182
      [] w = "ordering" -> 143
      [] w = "doctor" -> 167
      [] w = "the" -> 222
      [] w = "uncertain" -> 267
      [] OTHER -> 0

RatioElectronic(w) ==
    CASE w = "signed" -> 125
      [] w = "patel" -> 267
      [] w = "order" -> 133
      [] w = "ordering" -> 222
      [] w = "doctor" -> 375
      [] w = "blob" -> 7
      [] w = "who" -> 154
      [] w = "the" -> 154
      [] w = "uncertain" -> 211
      [] OTHER -> 0

----------------------------------------------------------------------------
(* The PDFs that can be uploaded: a PDF is the sequence of its pages, a    *)
(* page is its rect and the words _extract_words_with_fallback returns.    *)

Word(x1, y1, x2, y2, w) == [x1 |-> x1, y1 |-> y1, x2 |-> x2, y2 |-> y2, text |-> w]

\* "signed by patel" on one line, "ordering doctor" on the next.
PageSigned ==
    [width |-> 61200, height |-> 79200,
     words |-> << Word(5000, 10000, 8000, 11000, "signed"),
                  Word(8300, 10000, 9300, 11000, "by"),
                  Word(9600, 10000, 12000, 11000, "patel"),
                  Word(5000, 12000, 9000, 13000, "ordering"),
                  Word(9300, 12000, 12000, 13000, "doctor") >>]

\* two long tokens and a short line: the text does not fit one chunk.
PageLong ==
    [width |-> 61200, height |-> 79200,
     words |-> << Word(5000, 10000, 9000, 11000, "order"),
                  Word(5000, 12000, 55000, 13000, "blob"),
                  Word(5000, 14000, 55000, 15000, "blob"),
                  Word(5000, 16000, 8000, 17000, "patel") >>]

\* a word whose box has no width: spans.x2 > x1 rejects the row.
PageDegenerate ==
    [width |-> 59500, height |-> 84200,
     words |-> << Word(5000, 10000, 9000, 11000, "order"),
                  Word(9300, 10000, 9300, 11000, "by") >>]

\* a scanned page on which no word was extracted.
PageBlank == [width |-> 59500, height |-> 84200, words |-> << >>]

PageTemplates == {PageSigned, PageLong, PageDegenerate, PageBlank}

RECURSIVE SeqsUpTo(_, _)
SeqsUpTo(S, n) ==
    IF n = 0 THEN {<< >>}
    ELSE LET shorter == SeqsUpTo(S, n - 1)
         IN shorter \cup {Append(s, x) : s \in {t \in shorter : Len(t) = n - 1}, x \in S}

PDFs == SeqsUpTo(PageTemplates, MaxPages)

----------------------------------------------------------------------------
(* _chunk_span_window, on the text lengths of span_refs; indices are the   *)
(* code's 0-based indices and a window is <<start, end>>, end exclusive.   *)

\* Fault variant of TextLen: the separator between two spans is not counted.
TextLenNoSeparator(lens, end, total_chars) == lens[end + 1]

\* text_len = len(span_refs[end][0].text) + (1 if total_chars else 0)
TextLen(lens, end, total_chars) == lens[end + 1] + (IF total_chars # 0 THEN 1 ELSE 0)

\* Fault variant of Overflows: a window may hold one character more.
OverflowsLenient(total_chars, text_len, start, end) ==
    total_chars + text_len > CHUNK_MAX_CHARS + 1 /\ end > start

\* Fault variant of Overflows: a window may be closed before its first span.
OverflowsAtFirstSpan(total_chars, text_len, start, end) ==
    total_chars + text_len > CHUNK_MAX_CHARS

\* The break condition of the inner while loop.
Overflows(total_chars, text_len, start, end) ==
    total_chars + text_len > CHUNK_MAX_CHARS /\ end > start

\* The inner while loop: the end of the window that starts at start.
PackEnd[lens \in Seq(Nat), start \in Nat, end \in Nat, total_chars \in Nat] ==
    IF ~(end < Len(lens)) THEN end
    ELSE LET text_len == TextLen(lens, end, total_chars)
         IN IF Overflows(total_chars, text_len, start, end)
            THEN end
            ELSE PackEnd[lens, start, end + 1, total_chars + text_len]

\* Fault variant of NextStart: the next window starts after the end of this one.
NextStartSkips(start, end) == end + 1

\* Fault variant of NextStart: the windows share one span less.
NextStartShortOverlap(start, end) == Max(end - (CHUNK_OVERLAP_SPANS - 1), start + 1)

\* start = max(end - CHUNK_OVERLAP_SPANS, start + 1)
NextStart(start, end) == Max(end - CHUNK_OVERLAP_SPANS, start + 1)

\* The outer while loop: the windows from start on.
WindowsFrom[lens \in Seq(Nat), start \in Nat] ==
    IF ~(start < Len(lens)) THEN << >>
    ELSE LET end == PackEnd[lens, start, start, 0]
         IN IF end >= Len(lens)
            THEN << <<start, end>> >>
            ELSE << <<start, end>> >>
                 \o WindowsFrom[lens, NextStart(start, end)]

ChunkSpanWindow(lens) == IF Len(lens) = 0 THEN << >> ELSE WindowsFrom[lens, 0]

\* The text lengths of the span lists _chunk_span_window is called on: lists
\* of up to MaxSpans spans of one length, and every list of up to MaxMixed
\* spans of mixed lengths.  No span has an empty text (_extract_words).
MaxSpans == 66
MaxMixed == 4
SpanLens == {20, 100, 1000}
MixedLens == {1, 450, 900}

UniformLens(n, len) == [i \in 1..n |-> len]

ChunkInputs ==
    {UniformLens(n, len) : n \in 0..MaxSpans, len \in SpanLens}
    \cup SeqsUpTo(MixedLens, MaxMixed)

\* No function call is being followed.
NoFunction == [fn |-> "none", pc |-> "none"]

\* No answer generation is being followed.
NoLadder == [pc |-> "none"]

\* No call of _chunk_span_window is being followed.
NoCall == [pc |-> "none", lens |-> << >>, start |-> 0, windows |-> << >>]

\* Entry of _chunk_span_window: an empty list returns at once.
ChunkCall(lens) ==
    [pc |-> IF Len(lens) = 0 THEN "done" ELSE "loop",
     lens |-> lens, start |-> 0, windows |-> << >>]

\* One test of the outer while condition and, when it holds, one iteration.
ChunkIterate ==
    /\ chunker.pc = "loop"
    /\ LET c == chunker
           end == PackEnd[c.lens, c.start, c.start, 0]
       IN chunker' =
             IF ~(c.start < Len(c.lens))
             THEN [c EXCEPT !.pc = "done"]
             ELSE IF end >= Len(c.lens)
             THEN [c EXCEPT !.windows = Append(@, <<c.start, end>>), !.pc = "done"]
             ELSE [c EXCEPT !.windows = Append(@, <<c.start, end>>),
                            !.start = NextStart(c.start, end)]
    /\ UNCHANGED <<docs, pages, spans, chunks, nextPageId, nextSpanId, ingest,
                   statusChanges, req, fill, func, llm>>

----------------------------------------------------------------------------
(* OCR arbitration (_should_use_ocr).  Word metrics are (word_count,        *)
(* alnum_ratio), the ratio in hundredths; a quality score is in units of    *)
(* 1 / (100 * 100 * word_target).                                           *)

\* Settings.ocr_trigger_min_words
OCR_TRIGGER_MIN_WORDS == 18

\* OCR_SCORE_MARGIN = 0.04, in hundredths
OCR_SCORE_MARGIN == 4

\* Fault variant of WordQualityScore: the word score is not capped at 1.0.
WordQualityScoreUncapped(word_count, alnum_ratio) ==
    LET word_target == Max(1, OCR_TRIGGER_MIN_WORDS)
    IN 55 * 100 * word_count + 45 * alnum_ratio * word_target

\* _word_quality_score: min(1.0, word_count / word_target) * 0.55
\* + alnum_ratio * 0.45
WordQualityScore(word_count, alnum_ratio) ==
    LET word_target == Max(1, OCR_TRIGGER_MIN_WORDS)
    IN 55 * 100 * Min(word_target, word_count) + 45 * alnum_ratio * word_target

\* OCR_SCORE_MARGIN in the unit of the quality scores.
ScoreMargin == OCR_SCORE_MARGIN * 100 * Max(1, OCR_TRIGGER_MIN_WORDS)

\* The sums native_score + OCR_SCORE_MARGIN and native_ratio + 0.12 are sums
\* of doubles.  On the metrics of WordCounts and AlnumRatios the comparison
\* with such a sum has the outcome of exact arithmetic except where the two
\* sides are equal in exact arithmetic: there the rounded sum lies above the
\* other side for the metrics below, and the comparison is false.
ScoreTieLost(native_count, native_ratio, ocr_count, ocr_ratio) ==
    /\ native_ratio = 30 /\ ocr_ratio = 100
    /\ native_count \in {11, 13, 15, 17}
    /\ ocr_count = native_count - 9

RatioTieLost(native_ratio, ocr_ratio) ==
    ocr_ratio = native_ratio + 12 /\ native_ratio \in {17, 45, 46}

\* ocr_score >= native_score + OCR_SCORE_MARGIN
ScoreMarginReached(native_count, native_ratio, ocr_count, ocr_ratio) ==
    /\ WordQualityScore(ocr_count, ocr_ratio)
          >= WordQualityScore(native_count, native_ratio) + ScoreMargin
    /\ ~ScoreTieLost(native_count, native_ratio, ocr_count, ocr_ratio)

\* ocr_ratio >= native_ratio + 0.12
RatioGainReached(native_ratio, ocr_ratio) ==
    ocr_ratio >= native_ratio + 12 /\ ~RatioTieLost(native_ratio, ocr_ratio)

\* _should_use_ocr
ShouldUseOcr(native_count, native_ratio, ocr_count, ocr_ratio) ==
    IF ocr_count = 0 THEN FALSE
    ELSE IF native_count = 0 THEN TRUE
    ELSE IF ScoreMarginReached(native_count, native_ratio, ocr_count, ocr_ratio)
    THEN TRUE
    ELSE IF native_count < OCR_TRIGGER_MIN_WORDS /\ ocr_count > native_count
    THEN TRUE
    ELSE IF RatioGainReached(native_ratio, ocr_ratio)
            /\ ocr_count >= Max(3, native_count \div 2)
    THEN TRUE
    ELSE FALSE

\* The word metrics _should_use_ocr is called with: up to MaxWords words, and
\* alnum ratios in hundredths.
MaxWords == 25
WordCounts == 0..MaxWords
AlnumRatios == {0, 30, 45, 55, 57, 60, 67, 69, 90, 100}

\* Entry of _should_use_ocr.
OcrCall(native_metrics, ocr_metrics) ==
    [fn |-> "_should_use_ocr", pc |-> "called",
     native_metrics |-> native_metrics, ocr_metrics |-> ocr_metrics, result |-> FALSE]

\* _should_use_ocr returns.
OcrDecide ==
    /\ func.fn = "_should_use_ocr" /\ func.pc = "called"
    /\ func' = [func EXCEPT !.pc = "returned",
                            !.result = ShouldUseOcr(func.native_metrics[1],
                                                    func.native_metrics[2],
                                                    func.ocr_metrics[1],
                                                    func.ocr_metrics[2])]
    /\ UNCHANGED <<docs, pages, spans, chunks, nextPageId, nextSpanId, ingest,
                   statusChanges, req, chunker, fill, llm>>

----------------------------------------------------------------------------
(* Answer generation: the retry ladder *)

\* The optional parameters of a chat-completion request (messages and model
\* are part of every request).
OptionalParams == {"response_format", "temperature"}

\* What the text of a BadRequestError can contain: the name of a parameter,
\* or one of the phrases "chat.completions" / "responses api".
Mentionable == OptionalParams \cup {"responses api"}

\* The provider's answer to one request: a completion, a BadRequestError
\* whose text mentions some of the above, or any other error.
ProviderOutcomes ==
    {[kind |-> "ok", mentions |-> {}], [kind |-> "error", mentions |-> {}]}
        \cup [kind : {"bad_request"}, mentions : SUBSET Mentionable]

IsGpt5FamilyModel(model_name) == model_name = "gpt-5"

ChatModels == {"gpt-4o", "gpt-5"}

\* The parameters _create_llm_json_response sends first.
RequestKwargs(model_name) ==
    {"response_format"}
        \cup (IF IsGpt5FamilyModel(model_name) THEN {} ELSE {"temperature"})

\* The parameters of the Responses API request.
ResponsesKwargs(model_name) ==
    IF IsGpt5FamilyModel(model_name) THEN {} ELSE {"temperature"}

\* Fault variant of RetryKwargs: only response_format is dropped.
RetryKwargsKeepsTemperature(request_kwargs, mentions) ==
    request_kwargs \ (mentions \cap {"response_format"})

\* The request without every parameter the error text mentions.
RetryKwargs(request_kwargs, mentions) == request_kwargs \ mentions

\* Fault variant of ShouldRetry: the chat completion is always tried again.
ShouldRetryAlways(retry_kwargs, request_kwargs) == TRUE

ShouldRetry(retry_kwargs, request_kwargs) == retry_kwargs # request_kwargs

SignalsResponsesApi(mentions) == "responses api" \in mentions

\* Entry of _create_llm_json_response_for_model.
LadderCall(model_name) ==
    [pc |-> "chat", model_name |-> model_name,
     request_kwargs |-> RequestKwargs(model_name),
     retry_kwargs |-> RequestKwargs(model_name), requests |-> << >>]

Sent(api, kwargs, outcome) ==
    Append(llm.requests, [api |-> api, kwargs |-> kwargs, outcome |-> outcome])

LadderFrame ==
    UNCHANGED <<docs, pages, spans, chunks, nextPageId, nextSpanId, ingest,
                statusChanges, req, chunker, fill, func>>

\* The first chat completion and the handling of its outcome.
LlmChat ==
    /\ llm.pc = "chat"
    /\ \E outcome \in ProviderOutcomes :
          LET retry_kwargs == RetryKwargs(llm.request_kwargs, outcome.mentions)
              pc == IF outcome.kind = "ok" THEN "returned"
                    ELSE IF outcome.kind = "error" THEN "raised"
                    ELSE IF ShouldRetry(retry_kwargs, llm.request_kwargs) THEN "retry"
                    ELSE IF SignalsResponsesApi(outcome.mentions) THEN "responses"
                    ELSE "raised"
          IN llm' = [llm EXCEPT !.pc = pc,
                                !.retry_kwargs = IF outcome.kind = "bad_request"
                                                 THEN retry_kwargs ELSE @,
                                !.requests = Sent("chat", llm.request_kwargs, outcome)]
    /\ LadderFrame

\* The narrowed chat completion and the handling of its outcome.
LlmRetry ==
    /\ llm.pc = "retry"
    /\ \E outcome \in ProviderOutcomes :
          LET pc == IF outcome.kind = "ok" THEN "returned"
                    ELSE IF outcome.kind = "error" THEN "raised"
                    ELSE IF SignalsResponsesApi(outcome.mentions) THEN "responses"
                    ELSE "raised"
          IN llm' = [llm EXCEPT !.pc = pc,
                                !.requests = Sent("chat", llm.retry_kwargs, outcome)]
    /\ LadderFrame

\* _create_response_via_responses_api: one request, whose error propagates.
LlmResponses ==
    /\ llm.pc = "responses"
    /\ \E outcome \in ProviderOutcomes :
          llm' = [llm EXCEPT !.pc = IF outcome.kind = "ok" THEN "returned" ELSE "raised",
                             !.requests = Sent("responses",
                                               ResponsesKwargs(llm.model_name), outcome)]
    /\ LadderFrame

----------------------------------------------------------------------------
(* Rows *)

AbsentDoc ==
    [status |-> "absent", total_pages |-> NULL, page_width |-> NULL,
     page_height |-> NULL, error_message |-> NULL]

\* before: the committed rows of the document when the run began, and
\* flushed: the number of pages the run flushed, are kept for the record.
\* raised: the task ended with an exception instead of returning.
NoTask ==
    [pc |-> "none", pdf |-> << >>, page_idx |-> 0, pages |-> << >>,
     span_refs |-> << >>, reset |-> FALSE,
     before |-> [pages |-> {}, spans |-> {}, chunks |-> {}], flushed |-> 0,
     raised |-> FALSE]

RowsOf(table, d) == {r \in table : r.document_id = d}

\* The requests whose _ensure_chunk_embeddings calls are followed statement
\* by statement, the document they ask about, and how many calls each makes.
FillCallers == {"a", "b"}
FillDoc == "d0"
MaxFillRuns == 2

\* A request outside _ensure_chunk_embeddings.  run counts the calls of the
\* request; after_return: the call before this one returned normally;
\* provider_calls and rows_written count what this call did.
IdleCall ==
    [pc |-> "idle", run |-> 0, after_return |-> FALSE,
     missing_chunks |-> << >>, start |-> 0, assigned |-> << >>, flushed |-> 0,
     provider_calls |-> 0, rows_written |-> 0]

\* No call of _ensure_chunk_embeddings is being followed on its own; locks
\* holds <<chunk id, request>> for every row lock of an open transaction.
NoFill == [calls |-> [w \in FillCallers |-> IdleCall], locks |-> {}]

\* Fault variant of CharStart: the cursor advances by len(text) only.
CharStartNoSeparator(words, i) == SumSeq([j \in 1..(i - 1) |-> WordLen(words[j].text)])

\* char_start of the word at position i (1-based) of one page: the cursor
\* starts at 0 on every page and advances by len(text) + 1.
CharStart(words, i) == SumSeq([j \in 1..(i - 1) |-> WordLen(words[j].text) + 1])

\* The Span rows of one page, ids taken from the sequence in insertion order.
PageSpans(d, page_id, page_number, words, firstId) ==
    [i \in 1..Len(words) |->
        [id |-> firstId + i - 1,
         document_id |-> d,
         page_id |-> page_id,
         page_number |-> page_number,
         span_index |-> i - 1,
         text |-> words[i].text,
         x1 |-> words[i].x1, y1 |-> words[i].y1,
         x2 |-> words[i].x2, y2 |-> words[i].y2,
         char_start |-> CharStart(words, i),
         char_end |-> CharStart(words, i) + WordLen(words[i].text)]]

\* CHECK (x2 > x1), CHECK (y2 > y1) of table spans.
SpanRowOk(w) == w.x2 > w.x1 /\ w.y2 > w.y1

\* The Chunk rows process_document_metadata adds for its span_refs.
BuildChunks(d, span_refs) ==
    LET lens == [i \in 1..Len(span_refs) |-> WordLen(span_refs[i].text)]
        windows == ChunkSpanWindow(lens)
    IN { [id |-> <<d, k - 1>>,
          document_id |-> d,
          chunk_index |-> k - 1,
          text |-> [i \in 1..(windows[k][2] - windows[k][1]) |->
                        span_refs[windows[k][1] + i].text],
          page_start |-> Some(span_refs[windows[k][1] + 1].page_number),
          page_end |-> Some(span_refs[windows[k][2]].page_number),
          span_start_id |-> Some(span_refs[windows[k][1] + 1].id),
          span_end_id |-> Some(span_refs[windows[k][2]].id),
          embedding |-> NULL]
        : k \in {j \in 1..Len(windows) : windows[j][2] > windows[j][1]} }

----------------------------------------------------------------------------
(* Sorting: Python's sorted() is stable and compares key tuples            *)
(* lexicographically; keys[i] is the key tuple of s[i].                    *)

LexLess(a, b) ==
    \E k \in 1..Len(a) : (\A j \in 1..(k - 1) : a[j] = b[j]) /\ a[k] < b[k]

SortPerm(keys) ==
    [p \in 1..Len(keys) |->
        CHOOSE i \in 1..Len(keys) :
            Cardinality({j \in 1..Len(keys) :
                LexLess(keys[j], keys[i]) \/ (keys[j] = keys[i] /\ j < i)}) = p - 1]

SortByKeys(s, keys) == [p \in 1..Len(s) |-> s[SortPerm(keys)[p]]]

Abs(x) == IF x < 0 THEN -x ELSE x

----------------------------------------------------------------------------
(* Term matching and line scores (qa.py).  A weight or a score of the code *)
(* is held as an integer: in units of 1 / Scale for the per-line overlap   *)
(* scores and the signature signal, 1 / (Scale * 100) for a final score.   *)

Scale == 100 * 100

QUESTION_STOPWORDS ==
    {"the", "a", "an", "of", "to", "in", "on", "for", "and", "or", "is", "was",
     "were", "are", "be", "who", "what", "when", "where", "which", "how", "did",
     "does", "do", "from", "with", "by", "at", "as", "about"}

SIGNATURE_SIGNAL_THRESHOLD == 9000
CONTEXT_WINDOW_RADIUS == 1

\* _tokenize_question_terms; also the normalized_tokens of the overlap functions.
TokenizeQuestionTerms(text) ==
    {w \in SeqToSet(text) : WordLen(w) >= 3 /\ w \notin QUESTION_STOPWORDS}

TermMatches(term, tokens) ==
    \E token \in tokens :
        term = token \/ IsSubstring(term, token) \/ IsSubstring(token, term)

\* _keyword_overlap_count
KeywordOverlapCount(text, terms) ==
    IF terms = {} THEN 0
    ELSE LET normalized_tokens == TokenizeQuestionTerms(text)
         IN IF normalized_tokens = {} THEN 0
            ELSE Cardinality({term \in terms : TermMatches(term, normalized_tokens)})

RECURSIVE SumOver(_, _)
SumOver(S, f) ==
    IF S = {} THEN 0
    ELSE LET x == CHOOSE y \in S : TRUE IN f[x] + SumOver(S \ {x}, f)

\* term_weight = 1.0 + min(0.6, max(0.0, (len(term) - 4) * 0.08))
TermWeight(term) == Scale + Min(6000, Max(0, (WordLen(term) - 4) * 800))

\* _keyword_overlap_weighted_score
KeywordOverlapWeightedScore(text, terms) ==
    IF terms = {} THEN 0
    ELSE LET normalized_tokens == TokenizeQuestionTerms(text)
         IN IF normalized_tokens = {} THEN 0
            ELSE SumOver({term \in terms : TermMatches(term, normalized_tokens)},
                         [term \in terms |-> TermWeight(term)])

\* _question_targets_signer_evidence: "signed" or "signature" in the question.
QuestionTargetsSignerEvidence(question) ==
    \E i \in 1..Len(question) : IsSubstring("signed", question[i])

\* " a b " in f" {text.lower()} ": the words a, b next to each other.
HasPhrase(text, a, b) ==
    \E i \in 1..(Len(text) - 1) : text[i] = a /\ text[i + 1] = b

HasWord(text, a) == \E i \in 1..Len(text) : text[i] = a

\* The score one token contributes in _signature_line_signal.
TokenSignal(token) ==
    IF StartsWithSig(token) THEN 16000
    ELSE Max(IF StartsWithS(token) /\ RatioSigned(token) >= 600 THEN 13500 ELSE 0,
             IF RatioElectronic(token) >= 680 THEN 11500 ELSE 0)

RECURSIVE MaxOver(_, _)
MaxOver(S, f) ==
    IF S = {} THEN 0
    ELSE LET x == CHOOSE y \in S : TRUE IN Max(f[x], MaxOver(S \ {x}, f))

\* _signature_line_signal (no word of Vocab is "signature")
SignatureLineSignal(text) ==
    LET tokens == {w \in SeqToSet(text) : WordLen(w) >= 4}
        phrase == IF HasPhrase(text, "signed", "by") THEN 20000 ELSE 0
        score == Max(phrase, MaxOver(tokens, [t \in tokens |-> TokenSignal(t)]))
    IN IF score > 0 /\ HasWord(text, "by") THEN score + 2500 ELSE score

\* _operational_line_penalty: of its markers only "ordering doctor" can be
\* written with the words of Vocab.
OperationalLinePenalty(text) ==
    IF HasPhrase(text, "ordering", "doctor") THEN 13500 ELSE 0

\* _normalize_evidence_weights, the weights given in tenths; the result is the
\* pair <<q, a>> standing for q / (q + a) and a / (q + a).
NormalizeEvidenceWeights(question_weight, answer_weight) ==
    LET q == Max(0, question_weight)
        a == Max(0, answer_weight)
    IN IF q + a <= 0 THEN <<2, 8>> ELSE <<q, a>>

\* (question_score * question_weight) + (answer_score * answer_weight)
Weighted(question_score, answer_score, w) ==
    (question_score * w[1] + answer_score * w[2]) \div (w[1] + w[2])

----------------------------------------------------------------------------
(* Line grouping (qa.py)                                                   *)

\* _line_merge_tolerance, times 200: min(10.0, max(2.5, median_height * 0.65))
LineMergeTolerance200(line_spans) ==
    IF Len(line_spans) = 0 THEN 60000
    ELSE LET n == Len(line_spans)
             hs == [i \in 1..n |-> Max(50, line_spans[i].y2 - line_spans[i].y1)]
             heights == SortByKeys(hs, [i \in 1..n |-> <<hs[i]>>])
             mid == n \div 2
             \* twice the median height
             median2 == IF n % 2 = 0 THEN heights[mid] + heights[mid + 1]
                        ELSE 2 * heights[mid + 1]
         IN Min(200000, Max(50000, median2 * 65))

RECURSIVE SweepLines(_, _, _)
SweepLines(ordered, tolerance200, groups) ==
    IF Len(ordered) = 0 THEN groups
    ELSE LET span == Head(ordered)
         IN IF Len(groups) = 0
            THEN SweepLines(Tail(ordered), tolerance200, << <<span>> >>)
            ELSE LET current == groups[Len(groups)]
                     n == Len(current)
                     \* 2n * (center_y - current_center)
                     diff == n * (span.y1 + span.y2)
                             - SumSeq([i \in 1..n |-> current[i].y1 + current[i].y2])
                 IN IF 200 * Abs(diff) <= 2 * n * tolerance200
                    THEN SweepLines(Tail(ordered), tolerance200,
                                    [groups EXCEPT ![Len(groups)] = Append(current, span)])
                    ELSE SweepLines(Tail(ordered), tolerance200, Append(groups, <<span>>))

\* _group_spans_into_lines
GroupSpansIntoLines(line_spans) ==
    IF Len(line_spans) = 0 THEN << >>
    ELSE LET Sweep(ordered) == SweepLines(ordered, LineMergeTolerance200(ordered), << >>)
         IN Sweep(SortByKeys(line_spans,
                      [i \in 1..Len(line_spans) |->
                          <<line_spans[i].y1 + line_spans[i].y2, line_spans[i].x1>>]))

MinOf(S) == CHOOSE x \in S : \A y \in S : x <= y
MaxOf(S) == CHOOSE x \in S : \A y \in S : x >= y

----------------------------------------------------------------------------
(* Evidence ranking (qa.py).  Line indices are the code's 0-based indices. *)

BBoxOf(line_spans) ==
    [x1 |-> MinOf({line_spans[i].x1 : i \in 1..Len(line_spans)}),
     y1 |-> MinOf({line_spans[i].y1 : i \in 1..Len(line_spans)}),
     x2 |-> MaxOf({line_spans[i].x2 : i \in 1..Len(line_spans)}),
     y2 |-> MaxOf({line_spans[i].y2 : i \in 1..Len(line_spans)})]

\* One EvidenceLineCandidate of _chunk_evidence_items, for one line group.
LineCandidate(line_spans, question_terms, answer_terms, w, prefer_signature_lines) ==
    LET Candidate(ordered_line, excerpt, box, base, signature_signal) ==
            [text |-> excerpt,
             spans |-> ordered_line,
             y1 |-> box.y1,
             y2 |-> box.y2,
             weighted_score |->
                 IF prefer_signature_lines
                 THEN base + (signature_signal * 135) \div 100
                      - OperationalLinePenalty(excerpt)
                 ELSE base,
             answer_overlap |-> KeywordOverlapCount(excerpt, answer_terms),
             question_overlap |-> KeywordOverlapCount(excerpt, question_terms),
             signature_signal |-> signature_signal]
        Scored(ordered_line, excerpt) ==
            Candidate(ordered_line, excerpt, BBoxOf(ordered_line),
                      Weighted(KeywordOverlapWeightedScore(excerpt, question_terms),
                               KeywordOverlapWeightedScore(excerpt, answer_terms), w),
                      IF prefer_signature_lines THEN SignatureLineSignal(excerpt) ELSE 0)
        Ordered(ordered_line) ==
            Scored(ordered_line, [i \in 1..Len(ordered_line) |-> ordered_line[i].text])
    IN Ordered(SortByKeys(line_spans, [i \in 1..Len(line_spans) |-> <<line_spans[i].x1>>]))

\* The line_candidates of one page: a line without text or without area is skipped.
LineCandidates(page_spans, question_terms, answer_terms, w, prefer_signature_lines) ==
    LET Candidates(kept) ==
            [i \in 1..Len(kept) |->
                LineCandidate(kept[i], question_terms, answer_terms, w,
                              prefer_signature_lines)]
    IN Candidates(SelectSeq(GroupSpansIntoLines(page_spans),
                      LAMBDA g : /\ Len(g) > 0
                                 /\ BBoxOf(g).x2 > BBoxOf(g).x1
                                 /\ BBoxOf(g).y2 > BBoxOf(g).y1))

\* _rank_line_candidates_with_context: <<final_score, idx, candidate>>, best first.
RankLineCandidatesWithContext(candidates, question_terms, answer_terms, w) ==
    LET n == Len(candidates)
        Entry(idx) ==
            LET start == Max(0, idx - CONTEXT_WINDOW_RADIUS)
                end == Min(n, idx + CONTEXT_WINDOW_RADIUS + 1)
                window == start..(end - 1)
                context_text == Flatten([j \in 1..(end - start) |->
                                            candidates[start + j].text])
                context_score ==
                    Weighted(KeywordOverlapWeightedScore(context_text, question_terms),
                             KeywordOverlapWeightedScore(context_text, answer_terms), w)
                neighbor_overlap ==
                    SumOver(window \ {idx},
                            [j \in window |->
                                Min(2, candidates[j + 1].answer_overlap
                                       + candidates[j + 1].question_overlap)])
                candidate == candidates[idx + 1]
            IN << candidate.weighted_score * 72 + context_score * 28
                  + neighbor_overlap * Scale * 8 + candidate.signature_signal * 12,
                  idx, candidate >>
        Sorted(ranked) ==
            SortByKeys(ranked,
                [i \in 1..n |->
                    << -ranked[i][1],
                       -ranked[i][3].signature_signal,
                       -ranked[i][3].weighted_score,
                       -(ranked[i][3].answer_overlap + ranked[i][3].question_overlap),
                       ranked[i][3].y1 >>])
    IN Sorted([i \in 1..n |-> Entry(i - 1)])

\* add_idx of _expand_line_indices_from_seeds, for each index of idxs in turn.
RECURSIVE AddIndices(_, _, _, _)
AddIndices(selected_order, idxs, n, max_lines) ==
    IF Len(idxs) = 0 THEN selected_order
    ELSE LET idx == Head(idxs)
         IN AddIndices(IF /\ 0 <= idx /\ idx < n
                          /\ idx \notin SeqToSet(selected_order)
                          /\ Len(selected_order) < max_lines
                       THEN Append(selected_order, idx) ELSE selected_order,
                       Tail(idxs), n, max_lines)

\* is_relevant of _expand_line_indices_from_seeds
IsRelevant(candidates, idx) ==
    LET candidate == candidates[idx + 1]
    IN \/ candidate.answer_overlap + candidate.question_overlap > 0
       \/ candidate.weighted_score >= 7500
       \/ candidate.signature_signal >= SIGNATURE_SIGNAL_THRESHOLD

\* The seed loop of _expand_line_indices_from_seeds.
RECURSIVE AddSeeds(_, _, _, _)
AddSeeds(selected_order, seeds, candidates, max_lines) ==
    IF Len(seeds) = 0 THEN selected_order
    ELSE LET n == Len(candidates)
             seed == Head(seeds)
             near == << seed >>
                     \o (IF 0 <= seed - 1 /\ seed - 1 < n /\ IsRelevant(candidates, seed - 1)
                         THEN << seed - 1 >> ELSE << >>)
                     \o (IF 0 <= seed + 1 /\ seed + 1 < n /\ IsRelevant(candidates, seed + 1)
                         THEN << seed + 1 >> ELSE << >>)
             added == AddIndices(selected_order, near, n, max_lines)
         IN IF Len(added) >= max_lines THEN added
            ELSE AddSeeds(added, Tail(seeds), candidates, max_lines)

\* _expand_line_indices_from_seeds
ExpandLineIndicesFromSeeds(ranked_lines, candidates, seed_indices, max_lines) ==
    IF Len(candidates) = 0 \/ max_lines <= 0 THEN << >>
    ELSE LET n == Len(candidates)
             ranked_idx == [i \in 1..Len(ranked_lines) |-> ranked_lines[i][2]]
             \* the relevant lines in rank order
             Filled(seeded) ==
                 IF Len(seeded) < max_lines
                 THEN AddIndices(seeded,
                          SelectSeq(ranked_idx, LAMBDA i : IsRelevant(candidates, i)),
                          n, max_lines)
                 ELSE seeded
             \* the best line when nothing was selected
             NonEmpty(filled) ==
                 IF Len(filled) = 0 /\ Len(ranked_lines) > 0
                 THEN AddIndices(filled, << ranked_idx[1] >>, n, max_lines)
                 ELSE filled
             \* the remaining lines in rank order
             Relaxed(nonempty) ==
                 IF Len(nonempty) < max_lines
                 THEN AddIndices(nonempty, ranked_idx, n, max_lines)
                 ELSE nonempty
             ByY(relaxed) ==
                 SortByKeys(relaxed,
                     [i \in 1..Len(relaxed) |-> <<candidates[relaxed[i] + 1].y1>>])
         IN ByY(Relaxed(NonEmpty(Filled(AddSeeds(<< >>, seed_indices, candidates,
                                                 max_lines)))))

\* _build_line_evidence_item: << >> stands for None, <<item>> for an item.
BuildLineEvidenceItem(page_number, page_width, page_height, candidate) ==
    IF Len(candidate.spans) = 0 THEN << >>
    ELSE LET box == BBoxOf(candidate.spans)
         IN IF box.x2 <= box.x1 \/ box.y2 <= box.y1 THEN << >>
            ELSE IF Len(candidate.text) = 0 THEN << >>
            ELSE << [page |-> page_number, text |-> candidate.text, bbox |-> box,
                     page_width |-> page_width, page_height |-> page_height] >>

\* Fault variant of SelectedLineIndices: in signature mode a page without a
\* signing line falls back to its best ranked line.
SelectedLineIndicesWithFallback(ranked_lines, line_candidates, question_terms, answer_terms, min_keyword_overlap, prefer_signature_lines) ==
    LET Fallback(signature_selected) ==
            IF Len(signature_selected) = 0 THEN SubSeq(ranked_lines, 1, 1)
            ELSE signature_selected
        Indices(selected) ==
            SortByKeys([i \in 1..Len(selected) |-> selected[i][2]],
                       [i \in 1..Len(selected) |->
                           <<line_candidates[selected[i][2] + 1].y1, selected[i][2]>>])
    IN Indices(Fallback(SelectSeq(ranked_lines,
           LAMBDA e : e[3].signature_signal >= SIGNATURE_SIGNAL_THRESHOLD)))

\* The line indices _chunk_evidence_items selects on one page.
SelectedLineIndices(ranked_lines, line_candidates, question_terms, answer_terms, min_keyword_overlap, prefer_signature_lines) ==
    IF prefer_signature_lines
    THEN LET ByY(asc) ==
                 SortByKeys(asc, [i \in 1..Len(asc) |-> <<line_candidates[asc[i] + 1].y1>>])
             \* sorted() of a set: ascending set order, then stable by y1
             Ascending(signature_selected) ==
                 ByY(SortByKeys(
                         [i \in 1..Len(signature_selected) |-> signature_selected[i][2]],
                         [i \in 1..Len(signature_selected) |->
                             <<signature_selected[i][2]>>]))
         IN Ascending(SelectSeq(ranked_lines,
                LAMBDA e : e[3].signature_signal >= SIGNATURE_SIGNAL_THRESHOLD))
    ELSE LET Selected(overlapping) ==
                 IF question_terms # {} \/ answer_terms # {}
                 THEN (IF Len(overlapping) = 0
                       THEN SubSeq(ranked_lines, 1, 1) ELSE overlapping)
                 ELSE SubSeq(ranked_lines, 1, 1)
             Seeds(selected) ==
                 [i \in 1..Min(2, Len(selected)) |-> selected[i][2]]
         IN ExpandLineIndicesFromSeeds(ranked_lines, line_candidates,
                Seeds(Selected(SelectSeq(ranked_lines,
                    LAMBDA e : e[3].answer_overlap + e[3].question_overlap
                               >= min_keyword_overlap))),
                Len(line_candidates))

\* The rows _chunk_evidence_items reads: the spans of the document with an id
\* in the chunk's range, joined with their page, by (page_number, span_index).
SpanRowsInRange(spanTable, pageTable, d, low_id, high_id) ==
    LET rows == {sp \in spanTable :
                    /\ sp.document_id = d /\ sp.id >= low_id /\ sp.id <= high_id
                    /\ \E pg \in pageTable : pg.id = sp.page_id}
        PageRow(sp) == CHOOSE pg \in pageTable : pg.id = sp.page_id
        joined == {[span |-> sp, page_number |-> PageRow(sp).page_number,
                    width_pts |-> PageRow(sp).width_pts,
                    height_pts |-> PageRow(sp).height_pts] : sp \in rows}
        \* (page_id, span_index) is unique, so the order is total
        Before(a, b) == \/ a.page_number < b.page_number
                        \/ a.page_number = b.page_number
                           /\ a.span.span_index < b.span.span_index
                        \/ a.page_number = b.page_number
                           /\ a.span.span_index = b.span.span_index
                           /\ a.span.id < b.span.id
    IN [p \in 1..Cardinality(joined) |->
           CHOOSE r \in joined : Cardinality({q \in joined : Before(q, r)}) = p - 1]

\* The ScoredEvidenceItems of one page of _chunk_evidence_items.
PageEvidenceItems(page_number, rows, question_terms, answer_terms, min_keyword_overlap, w, prefer_signature_lines) ==
    LET page_spans == [i \in 1..Len(rows) |-> rows[i].span]
        widths == SelectSeq(rows, LAMBDA r : r.width_pts # NULL)
        heights == SelectSeq(rows, LAMBDA r : r.height_pts # NULL)
        page_width == IF Len(widths) = 0 THEN NULL ELSE widths[1].width_pts
        page_height == IF Len(heights) = 0 THEN NULL ELSE heights[1].height_pts
        Scored(item, score) ==
            IF Len(item) = 0 THEN << >> ELSE << [item |-> item[1], score |-> score] >>
        Built(line_candidates, ranked_lines, selected_indices) ==
            Flatten([i \in 1..Len(selected_indices) |->
                Scored(BuildLineEvidenceItem(page_number, page_width, page_height,
                           line_candidates[selected_indices[i] + 1]),
                       (CHOOSE e \in SeqToSet(ranked_lines) :
                            e[2] = selected_indices[i])[1])])
        Selected(line_candidates, ranked_lines) ==
            Built(line_candidates, ranked_lines,
                  SelectedLineIndices(ranked_lines, line_candidates, question_terms,
                      answer_terms, min_keyword_overlap, prefer_signature_lines))
        Ranked(line_candidates) ==
            IF Len(line_candidates) = 0 THEN << >>
            ELSE Selected(line_candidates,
                     RankLineCandidatesWithContext(line_candidates, question_terms,
                                                   answer_terms, w))
    IN Ranked(LineCandidates(page_spans, question_terms, answer_terms, w,
                             prefer_signature_lines))

\* _chunk_evidence_items
ChunkEvidenceItems(spanTable, pageTable, d, chunk, question_terms, answer_terms, min_keyword_overlap, w, prefer_signature_lines) ==
    IF chunk.span_start_id = NULL \/ chunk.span_end_id = NULL THEN << >>
    ELSE LET low_id == Min(chunk.span_start_id[1], chunk.span_end_id[1])
             high_id == Max(chunk.span_start_id[1], chunk.span_end_id[1])
             \* sorted(spans_by_page.items()): the pages in ascending order
             SortedPages(page_numbers) ==
                 [p \in 1..Cardinality(page_numbers) |->
                     CHOOSE n \in page_numbers :
                         Cardinality({m \in page_numbers : m < n}) = p - 1]
             Items(rows, sorted_pages) ==
                 Flatten([p \in 1..Len(sorted_pages) |->
                     PageEvidenceItems(sorted_pages[p],
                         SelectSeq(rows, LAMBDA r : r.page_number = sorted_pages[p]),
                         question_terms, answer_terms, min_keyword_overlap, w,
                         prefer_signature_lines)])
             Rows(rows) ==
                 Items(rows, SortedPages({rows[i].page_number : i \in 1..Len(rows)}))
         IN Rows(SpanRowsInRange(spanTable, pageTable, d, low_id, high_id))

\* A Chunk row as a RetrievedChunk.
AsRetrieved(row, distance) ==
    [id |-> row.id, chunk_index |-> row.chunk_index, text |-> row.text,
     page_start |-> row.page_start, page_end |-> row.page_end,
     span_start_id |-> row.span_start_id, span_end_id |-> row.span_end_id,
     distance |-> distance]

\* Fault variant of AddNeighbors: the neighbour before a chunk comes first.
RECURSIVE AddNeighborsPreviousFirst(_, _, _)
AddNeighborsPreviousFirst(expanded, cited, neighbor_rows) ==
    IF Len(cited) = 0 THEN expanded
    ELSE LET chunk == Head(cited)
             Row(i) == CHOOSE r \in neighbor_rows : r.chunk_index = i
             Has(i) == \E r \in neighbor_rows : r.chunk_index = i
             Seen(e, i) == \E k \in 1..Len(e) : e[k].id = Row(i).id
             minus == IF Has(chunk.chunk_index - 1) /\ ~Seen(expanded, chunk.chunk_index - 1)
                      THEN Append(expanded, AsRetrieved(Row(chunk.chunk_index - 1), NULL))
                      ELSE expanded
             plus == IF Has(chunk.chunk_index + 1) /\ ~Seen(minus, chunk.chunk_index + 1)
                     THEN Append(minus, AsRetrieved(Row(chunk.chunk_index + 1), NULL))
                     ELSE minus
         IN AddNeighborsPreviousFirst(plus, Tail(cited), neighbor_rows)

\* The second loop of _expand_chunks_for_evidence: the neighbours, +1 before -1.
RECURSIVE AddNeighbors(_, _, _)
AddNeighbors(expanded, cited, neighbor_rows) ==
    IF Len(cited) = 0 THEN expanded
    ELSE LET chunk == Head(cited)
             Row(i) == CHOOSE r \in neighbor_rows : r.chunk_index = i
             Has(i) == \E r \in neighbor_rows : r.chunk_index = i
             Seen(e, i) == \E k \in 1..Len(e) : e[k].id = Row(i).id
             plus == IF Has(chunk.chunk_index + 1) /\ ~Seen(expanded, chunk.chunk_index + 1)
                     THEN Append(expanded, AsRetrieved(Row(chunk.chunk_index + 1), NULL))
                     ELSE expanded
             minus == IF Has(chunk.chunk_index - 1) /\ ~Seen(plus, chunk.chunk_index - 1)
                      THEN Append(plus, AsRetrieved(Row(chunk.chunk_index - 1), NULL))
                      ELSE plus
         IN AddNeighbors(minus, Tail(cited), neighbor_rows)

\* The first occurrence of each id, in order.
RECURSIVE DedupById(_, _)
DedupById(acc, cs) ==
    IF Len(cs) = 0 THEN acc
    ELSE DedupById(IF \E k \in 1..Len(acc) : acc[k].id = Head(cs).id
                   THEN acc ELSE Append(acc, Head(cs)), Tail(cs))

\* _expand_chunks_for_evidence
ExpandChunksForEvidence(chunkTable, d, cited) ==
    IF Len(cited) = 0 THEN << >>
    ELSE LET expanded == DedupById(<< >>, cited)
             present_indices == {cited[i].chunk_index : i \in 1..Len(cited)}
             neighbor_indices ==
                 ({cited[i].chunk_index + 1 : i \in 1..Len(cited)} \ present_indices)
                 \cup ({cited[i].chunk_index - 1 :
                          i \in {j \in 1..Len(cited) : cited[j].chunk_index > 0}}
                       \ present_indices)
             neighbor_rows == {r \in chunkTable :
                                 r.document_id = d /\ r.chunk_index \in neighbor_indices}
         IN IF neighbor_indices = {} THEN expanded
            ELSE AddNeighbors(expanded, cited, neighbor_rows)

\* f"{x:.1f}" of a coordinate, in tenths of a point (no coordinate of the
\* model lies halfway between two tenths).
RoundTenth(x) == (x + 5) \div 10

EvidenceKey(item) ==
    << item.page, RoundTenth(item.bbox.x1), RoundTenth(item.bbox.y1),
       RoundTenth(item.bbox.x2), RoundTenth(item.bbox.y2) >>

\* Fault variant of MergeByKey: the first item met for a key is kept.
RECURSIVE MergeByKeyKeepsFirst(_, _)
MergeByKeyKeepsFirst(acc, scored_items) ==
    IF Len(scored_items) = 0 THEN acc
    ELSE LET scored == Head(scored_items)
             same == {k \in 1..Len(acc) : EvidenceKey(acc[k].item) = EvidenceKey(scored.item)}
         IN MergeByKeyKeepsFirst(IF same = {} THEN Append(acc, scored) ELSE acc,
                                 Tail(scored_items))

\* scored_by_key of _build_evidence as the sequence of its values: a key that
\* is assigned again keeps its place.
RECURSIVE MergeByKey(_, _)
MergeByKey(acc, scored_items) ==
    IF Len(scored_items) = 0 THEN acc
    ELSE LET scored == Head(scored_items)
             same == {k \in 1..Len(acc) : EvidenceKey(acc[k].item) = EvidenceKey(scored.item)}
             at == CHOOSE k \in same : TRUE
         IN MergeByKey(IF same = {} THEN Append(acc, scored)
                       ELSE IF scored.score > acc[at].score
                       THEN [acc EXCEPT ![at] = scored]
                       ELSE acc,
                       Tail(scored_items))

\* Fault variant of WalkScores: the walk goes on after a drop in score.
RECURSIVE WalkScoresPastDrop(_, _, _, _, _, _)
WalkScoresPastDrop(selected, rest, previous_score, best_score, st, absolute_threshold) ==
    IF Len(rest) = 0 THEN selected
    ELSE LET score == Head(rest).score
             relative_threshold == Min(100, Max(0, st.evidence_relative_score_threshold))
         IN IF score < absolute_threshold \/ score * 100 < best_score * relative_threshold
            THEN selected
            ELSE WalkScoresPastDrop(Append(selected, Head(rest)), Tail(rest), score,
                                    best_score, st, absolute_threshold)

\* The walk of _filter_scored_evidence over ordered[1:].
RECURSIVE WalkScores(_, _, _, _, _, _)
WalkScores(selected, rest, previous_score, best_score, st, absolute_threshold) ==
    IF Len(rest) = 0 THEN selected
    ELSE LET score == Head(rest).score
             relative_threshold == Min(100, Max(0, st.evidence_relative_score_threshold))
             drop_ratio_stop == Min(100, Max(0, st.evidence_drop_ratio_stop))
         IN IF score < absolute_threshold \/ score * 100 < best_score * relative_threshold
            THEN selected
            ELSE IF previous_score > 0 /\ score * 100 < previous_score * drop_ratio_stop
            THEN selected
            ELSE WalkScores(Append(selected, Head(rest)), Tail(rest), score, best_score,
                            st, absolute_threshold)

\* _filter_scored_evidence; the thresholds of the settings are in hundredths.
FilterScoredEvidence(scored_items, st) ==
    IF Len(scored_items) = 0 THEN << >>
    ELSE LET Capped(selected) ==
                 IF st.answer_max_evidence_items > 0
                 THEN SubSeq(selected, 1, Min(Len(selected), st.answer_max_evidence_items))
                 ELSE selected
             Filtered(ordered, best_score) ==
                 IF best_score <= 0 THEN SubSeq(ordered, 1, 1)
                 ELSE Capped(WalkScores(<< ordered[1] >>, Tail(ordered), best_score,
                                 best_score, st,
                                 Max(0, st.evidence_min_absolute_score) * Scale))
             Ordered(ordered) == Filtered(ordered, ordered[1].score)
         IN Ordered(SortByKeys(scored_items,
                [i \in 1..Len(scored_items) |->
                    << -scored_items[i].score, scored_items[i].item.page,
                       scored_items[i].item.bbox.y1, scored_items[i].item.bbox.x1 >>]))

\* The scored items of _build_evidence in the order its two loops visit them:
\* the expanded chunks in order, the items of each chunk in order.
ScoredCandidates(chunkTable, spanTable, pageTable, st, question, answer, d, selected_chunks) ==
    LET prefer_signature_lines == QuestionTargetsSignerEvidence(question)
        question_terms == TokenizeQuestionTerms(question)
        answer_terms == TokenizeQuestionTerms(answer)
        w == NormalizeEvidenceWeights(st.evidence_question_weight, st.evidence_answer_weight)
        ChunkItems(evidence_chunks) ==
            Flatten([i \in 1..Len(evidence_chunks) |->
                ChunkEvidenceItems(spanTable, pageTable, d, evidence_chunks[i],
                    question_terms, answer_terms,
                    st.retrieval_min_keyword_overlap, w, prefer_signature_lines)])
    IN ChunkItems(ExpandChunksForEvidence(chunkTable, d, selected_chunks))

\* scored_by_key.values() at the end of the loops of _build_evidence.
ScoredByKey(chunkTable, spanTable, pageTable, st, question, answer, d, selected_chunks) ==
    MergeByKey(<< >>, ScoredCandidates(chunkTable, spanTable, pageTable, st, question,
                                       answer, d, selected_chunks))

\* _build_evidence from scored_by_key on: the filter and the display order.
EvidenceOf(scored_by_key, st) ==
    LET Items(ordered_for_display) ==
            [i \in 1..Len(ordered_for_display) |-> ordered_for_display[i].item]
        OrderedForDisplay(filtered) ==
            Items(SortByKeys(filtered,
                [i \in 1..Len(filtered) |->
                    << filtered[i].item.page, filtered[i].item.bbox.y1,
                       filtered[i].item.bbox.x1, -filtered[i].score >>]))
    \* an empty scored_by_key gives an empty list
    IN IF Len(scored_by_key) = 0 THEN << >>
       ELSE OrderedForDisplay(FilterScoredEvidence(scored_by_key, st))

\* _build_evidence
BuildEvidence(chunkTable, spanTable, pageTable, st, question, answer, d, selected_chunks) ==
    EvidenceOf(ScoredByKey(chunkTable, spanTable, pageTable, st, question, answer, d,
                           selected_chunks), st)

\* The query of _validate_evidence_mapping for one item.
ItemIntersectsSpan(spanTable, pageTable, d, item) ==
    \E sp \in spanTable : \E pg \in pageTable :
        /\ sp.page_id = pg.id
        /\ sp.document_id = d
        /\ pg.page_number = item.page
        /\ sp.x2 > item.bbox.x1 /\ sp.x1 < item.bbox.x2
        /\ sp.y2 > item.bbox.y1 /\ sp.y1 < item.bbox.y2

\* _validate_evidence_mapping
ValidateEvidenceMapping(spanTable, pageTable, d, evidence) ==
    \A i \in 1..Len(evidence) :
        /\ ~(evidence[i].bbox.x2 <= evidence[i].bbox.x1
             \/ evidence[i].bbox.y2 <= evidence[i].bbox.y1)
        /\ ItemIntersectsSpan(spanTable, pageTable, d, evidence[i])

\* Fault variant of HasSufficientRetrievalConfidence: the comparison is strict.
HasSufficientRetrievalConfidenceStrict(st, retrieved) ==
    /\ Len(retrieved) > 0
    /\ \E i \in 1..Len(retrieved) :
          /\ retrieved[i].distance # NULL
          /\ retrieved[i].distance[1] < st.retrieval_max_vector_distance

\* _has_sufficient_retrieval_confidence; distances are in hundredths.
HasSufficientRetrievalConfidence(st, retrieved) ==
    IF Len(retrieved) = 0 THEN FALSE
    ELSE LET vector_distances == {retrieved[i].distance[1] :
                                     i \in {j \in 1..Len(retrieved) :
                                              retrieved[j].distance # NULL}}
         IN IF vector_distances # {}
            THEN MinOf(vector_distances) <= st.retrieval_max_vector_distance
            ELSE FALSE

\* Fault variant of AnswerIsUncertain: no marker is looked for.
AnswerIsUncertainNever(answer) == FALSE

\* _answer_is_uncertain: of its markers only "uncertain" is a word of Vocab.
AnswerIsUncertain(answer) ==
    \E i \in 1..Len(answer) : IsSubstring("uncertain", answer[i])

----------------------------------------------------------------------------
(* The question answering request (routes/documents.py, qa.py)             *)

INSUFFICIENT_EVIDENCE_ANSWER ==
    << "I don't have enough grounded evidence in this document to answer that confidently." >>

EMBEDDING_VECTOR_DIM == 1536

\* Settings (core/config.py) with the defaults of the class; the thresholds
\* are in hundredths, the evidence weights in tenths, openai_api_key tells
\* whether a key is configured.
DefaultSettings ==
    [openai_api_key |-> TRUE,
     openai_embedding_dimensions |-> 1536,
     retrieval_top_k |-> 8,
     retrieval_max_context_chunks |-> 6,
     answer_max_evidence_items |-> 0,
     retrieval_min_keyword_overlap |-> 1,
     evidence_question_weight |-> 2,
     evidence_answer_weight |-> 8,
     evidence_relative_score_threshold |-> 60,
     evidence_drop_ratio_stop |-> 72,
     evidence_min_absolute_score |-> 20,
     retrieval_max_vector_distance |-> 120,
     minimum_evidence_items |-> 1,
     require_llm_citations |-> TRUE]

\* The settings a request can run under.
SettingsChoices ==
    {DefaultSettings,
     [DefaultSettings EXCEPT !.require_llm_citations = FALSE],
     [DefaultSettings EXCEPT !.retrieval_max_context_chunks = 1],
     [DefaultSettings EXCEPT !.openai_api_key = FALSE],
     [DefaultSettings EXCEPT !.openai_embedding_dimensions = 512]}

\* A run of white space in a text.
Blank == " "

RECURSIVE LStrip(_)
LStrip(text) == IF Len(text) > 0 /\ Head(text) = Blank THEN LStrip(Tail(text)) ELSE text

RECURSIVE RStrip(_)
RStrip(text) ==
    IF Len(text) > 0 /\ text[Len(text)] = Blank
    THEN RStrip(SubSeq(text, 1, Len(text) - 1)) ELSE text

\* str.strip
Strip(text) == RStrip(LStrip(text))

\* The questions a client can send.
Questions ==
    { << Blank >>,
      << "who", "signed", "the", "order" >>,
      << "patel", "order", Blank >> }

\* The documents a client asks about.
AskedDocs == {"d1"}

\* The cosine distances a vector query can report: the default threshold and
\* a distance above it.
Distances == {120, 125}

\* How the chunks of the document lie around the question's embedding.
DistanceProfiles == {"all_near", "all_far", "last_near"}

DistanceOf(profile, chunk_index, last_index) ==
    CASE profile = "all_near" -> 120
      [] profile = "all_far" -> 125
      [] profile = "last_near" -> IF chunk_index = last_index THEN 120 ELSE 125

IdleReq ==
    [pc |-> "idle", doc |-> "d1", question |-> << >>, st |-> DefaultSettings,
     observed_status |-> "none",
     retrieved_ok |-> FALSE, retrieved |-> << >>, context |-> << >>,
     replied |-> FALSE, reply_answer |-> << >>, cited_chunk_ids |-> << >>,
     valid_citations |-> << >>, ranked_chunks |-> << >>,
     scored_by_key |-> << >>, stages |-> << >>,
     provider_calls |-> 0, db_writes |-> 0,
     failed_stage |-> "none", unparsed |-> FALSE,
     http_status |-> 0, error |-> "none", response |-> NULL, reason |-> ""]

\* The except clauses of ask_document_question, and its 404.
HttpStatusOf(error) ==
    CASE error = "DocumentNotFound" -> 404
      [] error = "InvalidQuestionError" -> 400
      [] error = "DocumentNotReadyError" -> 409
      [] error = "OpenAIConfigurationError" -> 500
      [] error = "QAError" -> 500

\* The request ends with an exception.
Raise(r, error) ==
    [r EXCEPT !.pc = "done", !.error = error, !.http_status = HttpStatusOf(error)]

\* The request ends with a response body.
Return(r, response, reason) ==
    [r EXCEPT !.pc = "done", !.http_status = 200, !.response = Some(response),
              !.reason = reason]

\* Fault variant of InsufficientResponse: the response keeps an evidence item.
InsufficientResponseWithEvidence(reason) ==
    [answer |-> INSUFFICIENT_EVIDENCE_ANSWER,
     evidence |-> << [page |-> 1, text |-> << "order" >>,
                      bbox |-> [x1 |-> 5000, y1 |-> 10000, x2 |-> 9000, y2 |-> 11000],
                      page_width |-> NULL, page_height |-> NULL] >>]

\* _insufficient_response
InsufficientResponse(reason) ==
    [answer |-> INSUFFICIENT_EVIDENCE_ANSWER, evidence |-> << >>]

\* Fault variant of NotReady: only 'error' is rejected.
NotReadyOnlyError(status) == status = "error"

\* document.status != "ready"
NotReady(status) == status # "ready"

\* except Exception around _ensure_chunk_embeddings
BackfillExcept(r) == Raise(r, "QAError")

\* Fault variant of RetrievalExcept: the failure is raised as a QAError.
RetrievalExceptRaises(r) == Raise(r, "QAError")

\* except Exception around _retrieve_chunks
RetrievalExcept(r) ==
    Return(r, InsufficientResponse("Vector retrieval failed."), "Vector retrieval failed.")

\* Fault variant of GenerateExcept: the failure is answered with the canned response.
GenerateExceptSwallows(r) ==
    Return(r, [answer |-> INSUFFICIENT_EVIDENCE_ANSWER, evidence |-> << >>],
           "Answer generation failed.")

\* except Exception around _generate_answer
GenerateExcept(r) == Raise(r, "QAError")

\* Fault variant of MissingChunks: the embedding column is not tested.
MissingChunksIgnoringEmbedding(chunkTable, d) ==
    {c \in chunkTable : c.document_id = d}

\* The rows _ensure_chunk_embeddings selects.
MissingChunks(chunkTable, d) ==
    {c \in chunkTable : c.document_id = d /\ c.embedding = NULL}

\* The embedding the provider returns for a text.
Embed(text) == <<"embedding", text>>

\* batch_size = 64
BATCH_SIZE == 64

\* Chunk rows ORDER BY chunk_index.
OrderByChunkIndex(rows) ==
    [p \in 1..Cardinality(rows) |->
        CHOOSE c \in rows : Cardinality({b \in rows : b.chunk_index < c.chunk_index}) = p - 1]

\* response.data for a request of texts: one embedding per input, in order.
EmbeddingsCreate(texts) == [i \in 1..Len(texts) |-> Embed(texts[i])]

\* Fault variant of ZipBatch: each chunk is paired with the vector of the next.
ZipBatchShifted(batch, data) ==
    [i \in 1..Len(batch) |-> [id |-> batch[i].id, embedding |-> data[(i % Len(data)) + 1]]]

\* for chunk, embedded in zip(batch, response.data, strict=True): the pairs
\* <<chunk, embedding>> assigned in the session.
ZipBatch(batch, data) ==
    [i \in 1..Len(batch) |-> [id |-> batch[i].id, embedding |-> data[i]]]

\* The number of requests _ensure_chunk_embeddings sends for n chunks.
EmbeddingBatches(n) == (n + 63) \div 64

\* _retrieve_chunks after the question is embedded: the rows of the vector
\* query, ordered by distance and chunk_index, cut at retrieval_top_k.
RetrieveChunks(chunkTable, d, profile, top_k) ==
    LET rows == {c \in chunkTable : c.document_id = d /\ c.embedding # NULL}
        last_index == MaxOf({c.chunk_index : c \in rows})
        Distance(c) == DistanceOf(profile, c.chunk_index, last_index)
        Before(a, b) == \/ Distance(a) < Distance(b)
                        \/ Distance(a) = Distance(b) /\ a.chunk_index < b.chunk_index
        ordered == [p \in 1..Cardinality(rows) |->
                       CHOOSE c \in rows : Cardinality({b \in rows : Before(b, c)}) = p - 1]
    IN [p \in 1..Min(top_k, Cardinality(rows)) |->
           AsRetrieved(ordered[p], Some(Distance(ordered[p])))]

\* retrieved[: settings.retrieval_max_context_chunks]
ContextChunks(st, retrieved) ==
    SubSeq(retrieved, 1, Min(st.retrieval_max_context_chunks, Len(retrieved)))

\* _parse_json_payload: a content that holds no JSON object gives {}.
ParseJsonPayload(content) ==
    IF content.parsable
    THEN [answer |-> content.answer, citations |-> content.citations]
    ELSE [answer |-> << >>, citations |-> << >>]

\* The chunk_ids loop of _generate_answer: ids that parse as a UUID, each once.
RECURSIVE CitedChunkIds(_, _)
CitedChunkIds(chunk_ids, citations) ==
    IF Len(citations) = 0 THEN chunk_ids
    ELSE LET raw == Head(citations)
         IN CitedChunkIds(IF raw.is_uuid /\ raw.id \notin SeqToSet(chunk_ids)
                          THEN Append(chunk_ids, raw.id) ELSE chunk_ids,
                          Tail(citations))

\* _generate_answer, from the content the chat model returned.
GenerateAnswer(content) ==
    LET payload == ParseJsonPayload(content)
    IN [answer |-> Strip(payload.answer),
        cited_chunk_ids |-> CitedChunkIds(<< >>, payload.citations)]

\* Fault variant of ValidCitations: the cited ids are not filtered.
ValidCitationsUnfiltered(cited_chunk_ids, context_chunks) == cited_chunk_ids

\* valid_citations, before the top-1 fallback
ValidCitations(cited_chunk_ids, context_chunks) ==
    SelectSeq(cited_chunk_ids,
              LAMBDA id : \E k \in 1..Len(context_chunks) : context_chunks[k].id = id)

\* selected_chunks
RECURSIVE SelectedChunks(_, _, _)
SelectedChunks(selected_chunks, valid_citations, context_chunks) ==
    IF Len(valid_citations) = 0 THEN selected_chunks
    ELSE LET chunk_id == Head(valid_citations)
             found == {k \in 1..Len(context_chunks) : context_chunks[k].id = chunk_id}
             chunk == context_chunks[MaxOf(found)]
         IN SelectedChunks(IF found # {} /\ chunk \notin SeqToSet(selected_chunks)
                           THEN Append(selected_chunks, chunk) ELSE selected_chunks,
                           Tail(valid_citations), context_chunks)

\* Fault variant of AnswerGate: an empty answer is let through.
AnswerGateWithoutEmptyCheck(st, valid_citations, answer) ==
    IF st.require_llm_citations /\ Len(valid_citations) = 0
    THEN "No valid citations were returned by the model."
    ELSE IF Len(answer) > 0 /\ AnswerIsUncertain(answer)
    THEN "Model flagged uncertainty."
    ELSE ""

\* The three gates of ask_question on the model's answer: the reason of the
\* first that fails, "" when all let the answer through.
AnswerGate(st, valid_citations, answer) ==
    IF st.require_llm_citations /\ Len(valid_citations) = 0
    THEN "No valid citations were returned by the model."
    ELSE IF Len(answer) = 0
    THEN "Model answer text was empty."
    ELSE IF AnswerIsUncertain(answer)
    THEN "Model flagged uncertainty."
    ELSE ""

\* Fault variant of CitedOrTopChunk: the fallback is the last context chunk.
CitedOrTopChunkTakesLast(valid_citations, context_chunks) ==
    IF Len(valid_citations) = 0
    THEN << context_chunks[Len(context_chunks)].id >> ELSE valid_citations

\* valid_citations after the fallback of ask_question: without a valid
\* citation, the first context chunk.
CitedOrTopChunk(valid_citations, context_chunks) ==
    IF Len(valid_citations) = 0 THEN << context_chunks[1].id >> ELSE valid_citations

\* ask_question from the model's answer on: the citation filter, the answer
\* gates, the evidence and its validation.  valid_citations (before the
\* fallback), the chunks handed to _build_evidence, scored_by_key and the
\* stages that ran are kept for the record.
AnswerFromModel(chunkTable, spanTable, pageTable, st, d, question, context_chunks, answer, cited_chunk_ids) ==
    LET Gate(reason, valid, ranked, scored_by_key, stages) ==
            [response |-> InsufficientResponse(reason), reason |-> reason,
             valid_citations |-> valid, ranked_chunks |-> ranked,
             scored_by_key |-> scored_by_key, stages |-> stages]
        Evidence(valid, selected_chunks, scored_by_key, evidence) ==
            IF Len(evidence) < st.minimum_evidence_items
            THEN Gate("Evidence count is below minimum threshold.", valid, selected_chunks,
                      scored_by_key, << "answer_gates", "evidence_ranking" >>)
            ELSE IF ~ValidateEvidenceMapping(spanTable, pageTable, d, evidence)
            THEN Gate("Evidence mapping validation failed.", valid, selected_chunks,
                      scored_by_key, << "answer_gates", "evidence_ranking", "validation" >>)
            ELSE [response |-> [answer |-> answer, evidence |-> evidence], reason |-> "",
                  valid_citations |-> valid, ranked_chunks |-> selected_chunks,
                  scored_by_key |-> scored_by_key,
                  stages |-> << "answer_gates", "evidence_ranking", "validation" >>]
        Selected(valid, selected_chunks) ==
            IF Len(selected_chunks) = 0
            THEN Gate("No cited chunks were resolved to retrieval context.", valid, << >>,
                      << >>, << "answer_gates" >>)
            ELSE Evidence(valid, selected_chunks,
                     ScoredByKey(chunkTable, spanTable, pageTable, st, question, answer,
                                 d, selected_chunks),
                     BuildEvidence(chunkTable, spanTable, pageTable, st, question, answer,
                                   d, selected_chunks))
        Cited(valid, reason) ==
            IF reason # ""
            THEN Gate(reason, valid, << >>, << >>, << "answer_gates" >>)
            ELSE Selected(valid,
                     SelectedChunks(<< >>, CitedOrTopChunk(valid, context_chunks),
                                    context_chunks))
        Filtered(valid) == Cited(valid, AnswerGate(st, valid, answer))
    IN Filtered(ValidCitations(cited_chunk_ids, context_chunks))

----------------------------------------------------------------------------
(* Upload and ingestion *)

\* Fault variant of ReadyRow: page_height is left unset.
ReadyRowWithoutHeight(pdf) ==
    [status |-> "ready",
     total_pages |-> Some(Len(pdf)),
     page_width |-> Some(pdf[1].width),
     page_height |-> NULL,
     error_message |-> NULL]

\* The columns process_document_metadata assigns before its commit.
ReadyRow(pdf) ==
    [status |-> "ready",
     total_pages |-> Some(Len(pdf)),
     page_width |-> Some(pdf[1].width),
     page_height |-> Some(pdf[1].height),
     error_message |-> NULL]

\* The columns the except branch assigns.
ErrorRow ==
    [status |-> "error", total_pages |-> NULL, page_width |-> NULL,
     page_height |-> NULL, error_message |-> Some("Document processing failed")]

\* The Span rows a run creates for the pages of pdf from page k on, the first
\* page row having id firstPageId and the first span row id firstSpanId.
RECURSIVE SpanRefs(_, _, _, _, _)
SpanRefs(d, pdf, k, firstPageId, firstSpanId) ==
    IF k > Len(pdf) THEN << >>
    ELSE PageSpans(d, firstPageId, k, pdf[k].words, firstSpanId)
         \o SpanRefs(d, pdf, k + 1, firstPageId + 1, firstSpanId + Len(pdf[k].words))

PageRow(d, page_id, page_number, page) ==
    [id |-> page_id, document_id |-> d, page_number |-> page_number,
     width_pts |-> Some(page.width), height_pts |-> Some(page.height)]

\* The PDF of "d0", ingested without a failure before the behaviour starts.
ArchivedPdf == << PageLong >>

InitRows ==
    /\ docs = [d \in DocIds |-> IF d = "d0" THEN ReadyRow(ArchivedPdf) ELSE AbsentDoc]
    /\ pages = {PageRow("d0", k, k, ArchivedPdf[k]) : k \in 1..Len(ArchivedPdf)}
    /\ spans = SeqToSet(SpanRefs("d0", ArchivedPdf, 1, 1, 1))
    /\ chunks = BuildChunks("d0", SpanRefs("d0", ArchivedPdf, 1, 1, 1))
    /\ nextPageId = Len(ArchivedPdf) + 1
    /\ nextSpanId = Len(SpanRefs("d0", ArchivedPdf, 1, 1, 1)) + 1
    /\ ingest = [d \in DocIds |-> IF d = "d0" THEN [NoTask EXCEPT !.pc = "done"] ELSE NoTask]
    /\ statusChanges = [d \in DocIds |-> IF d = "d0" THEN 1 ELSE 0]
    /\ req = IdleReq

Init ==
    /\ InitRows
    /\ chunker = NoCall
    /\ fill = NoFill
    /\ func = NoFunction
    /\ llm = NoLadder

\* The committed Page, Span and Chunk rows of a document.
CommittedRows(d) ==
    [pages |-> RowsOf(pages, d), spans |-> RowsOf(spans, d), chunks |-> RowsOf(chunks, d)]

\* upload_document, on a request that passes the PDF and size checks: the row
\* is committed in 'processing' and the background task is scheduled.
UploadDocument(d, pdf) ==
    /\ docs[d].status = "absent"
    /\ docs' = [docs EXCEPT ![d] = [AbsentDoc EXCEPT !.status = "processing"]]
    /\ ingest' = [ingest EXCEPT ![d] = [NoTask EXCEPT !.pc = "scheduled", !.pdf = pdf]]
    /\ UNCHANGED <<pages, spans, chunks, nextPageId, nextSpanId, statusChanges, req>>
    /\ UNCHANGED <<chunker, fill, func, llm>>

\* Fault variant of HandleFailure: the except branch commits without a rollback.
HandleFailureWithoutRollback(d) ==
    /\ docs' = [docs EXCEPT ![d] = ErrorRow]
    /\ statusChanges' = [statusChanges EXCEPT ![d] =
                           @ + (IF docs[d].status # "error" THEN 1 ELSE 0)]
    /\ ingest' = [ingest EXCEPT ![d] =
                    [NoTask EXCEPT !.pc = "done",
                                   !.before = IF ingest[d].pc = "scheduled"
                                              THEN CommittedRows(d) ELSE ingest[d].before,
                                   !.flushed = ingest[d].page_idx]]
    /\ pages' = pages \cup SeqToSet(ingest[d].pages)
    /\ spans' = spans \cup SeqToSet(ingest[d].span_refs)
    /\ UNCHANGED chunks

\* Fault variant of HandleFailure: the except branch rolls back and re-raises.
HandleFailureReraises(d) ==
    /\ ingest' = [ingest EXCEPT ![d] = [NoTask EXCEPT !.pc = "done", !.raised = TRUE]]
    /\ UNCHANGED <<docs, statusChanges, pages, spans, chunks>>

\* The except branch of process_document_metadata: rollback, then the row is
\* set to 'error' with the page metadata cleared, in a commit of its own.
HandleFailure(d) ==
    /\ docs' = [docs EXCEPT ![d] = ErrorRow]
    /\ statusChanges' = [statusChanges EXCEPT ![d] =
                           @ + (IF docs[d].status # "error" THEN 1 ELSE 0)]
    /\ ingest' = [ingest EXCEPT ![d] =
                    [NoTask EXCEPT !.pc = "done",
                                   !.before = IF ingest[d].pc = "scheduled"
                                              THEN CommittedRows(d) ELSE ingest[d].before,
                                   !.flushed = ingest[d].page_idx]]
    /\ UNCHANGED <<pages, spans, chunks>>

\* fitz.open and the page count check.
IngestOpen(d) ==
    /\ ingest[d].pc = "scheduled"
    /\ IF Len(ingest[d].pdf) = 0
       THEN HandleFailure(d)
       ELSE /\ ingest' = [ingest EXCEPT ![d].pc = "opened",
                                        ![d].before = CommittedRows(d)]
            /\ UNCHANGED <<docs, pages, spans, chunks, statusChanges>>
    /\ UNCHANGED <<nextPageId, nextSpanId, req>>
    /\ UNCHANGED <<chunker, fill, func, llm>>

\* _reset_document_rows and the pages directory: the deletes are flushed inside
\* the transaction.
IngestReset(d) ==
    /\ ingest[d].pc = "opened"
    /\ ingest' = [ingest EXCEPT ![d].pc = "pages", ![d].reset = TRUE]
    /\ UNCHANGED <<docs, pages, spans, chunks, nextPageId, nextSpanId, statusChanges, req>>
    /\ UNCHANGED <<chunker, fill, func, llm>>

\* One iteration of the page loop: the Page row and the page's Span rows are
\* flushed; a row that breaks a CHECK constraint makes the flush raise.
IngestPage(d) ==
    /\ ingest[d].pc = "pages"
    /\ ingest[d].page_idx < Len(ingest[d].pdf)
    /\ LET t == ingest[d]
           page == t.pdf[t.page_idx + 1]
           page_number == t.page_idx + 1
           page_row == PageRow(d, nextPageId, page_number, page)
           bad == {i \in 1..Len(page.words) : ~SpanRowOk(page.words[i])}
           firstBad == CHOOSE i \in bad : \A j \in bad : i <= j
           page_spans == PageSpans(d, nextPageId, page_number, page.words, nextSpanId)
       IN /\ nextPageId' = nextPageId + 1
          /\ IF bad # {}
             THEN /\ nextSpanId' = nextSpanId + firstBad
                  /\ HandleFailure(d)
             ELSE /\ nextSpanId' = nextSpanId + Len(page.words)
                  /\ ingest' = [ingest EXCEPT ![d].page_idx = @ + 1,
                                              ![d].pages = Append(@, page_row),
                                              ![d].span_refs = @ \o page_spans]
                  /\ UNCHANGED <<docs, pages, spans, chunks, statusChanges>>
    /\ UNCHANGED req
    /\ UNCHANGED <<chunker, fill, func, llm>>

\* After the page loop: the chunks are added, the document is set to 'ready'
\* with its page metadata, and the transaction commits.
IngestFinish(d) ==
    /\ ingest[d].pc = "pages"
    /\ ingest[d].page_idx = Len(ingest[d].pdf)
    /\ LET t == ingest[d]
       IN /\ pages' = (IF t.reset THEN pages \ RowsOf(pages, d) ELSE pages)
                        \cup SeqToSet(t.pages)
          /\ spans' = (IF t.reset THEN spans \ RowsOf(spans, d) ELSE spans)
                        \cup SeqToSet(t.span_refs)
          /\ chunks' = (IF t.reset THEN chunks \ RowsOf(chunks, d) ELSE chunks)
                        \cup BuildChunks(d, t.span_refs)
          /\ docs' = [docs EXCEPT ![d] = ReadyRow(t.pdf)]
          /\ statusChanges' = [statusChanges EXCEPT ![d] =
                                 @ + (IF docs[d].status # "ready" THEN 1 ELSE 0)]
          /\ ingest' = [ingest EXCEPT ![d] =
                          [NoTask EXCEPT !.pc = "done", !.before = t.before,
                                         !.flushed = t.page_idx]]
    /\ UNCHANGED <<nextPageId, nextSpanId, req>>
    /\ UNCHANGED <<chunker, fill, func, llm>>

\* Fault variant of IngestFail: an exception is also raised after the commit.
IngestFailAfterCommit(d) ==
    /\ ingest[d].pc \in {"scheduled", "opened", "pages", "done"}
    /\ docs[d].status # "absent"
    /\ docs' = [docs EXCEPT ![d] = ErrorRow]
    /\ statusChanges' = [statusChanges EXCEPT ![d] =
                           @ + (IF docs[d].status # "error" THEN 1 ELSE 0)]
    /\ ingest' = [ingest EXCEPT ![d] = [@ EXCEPT !.pc = "done"]]
    /\ UNCHANGED <<pages, spans, chunks, nextPageId, nextSpanId, req>>
    /\ UNCHANGED <<chunker, fill, func, llm>>

\* Any statement of the try block raises (the file cannot be opened, a page
\* cannot be rendered or written, the database refuses a flush or the commit).
IngestFail(d) ==
    /\ ingest[d].pc \in {"scheduled", "opened", "pages"}
    /\ HandleFailure(d)
    /\ UNCHANGED <<nextPageId, nextSpanId, req>>
    /\ UNCHANGED <<chunker, fill, func, llm>>

----------------------------------------------------------------------------
(* POST /documents/{id}/ask *)

\* ask_document_question up to the OpenAI client: the document is read once,
\* then the question, the status and the configuration are checked.
AskStart(d, question, st) ==
    /\ req.pc \in {"idle", "done"}
    /\ LET r == [IdleReq EXCEPT !.doc = d, !.question = Strip(question), !.st = st]
           \* ask_question has read document.status
           observed == [r EXCEPT !.observed_status = docs[d].status]
       IN req' = IF docs[d].status = "absent"
                 THEN Raise(r, "DocumentNotFound")
                 ELSE IF Len(Strip(question)) = 0
                 THEN Raise(r, "InvalidQuestionError")
                 ELSE IF NotReady(docs[d].status)
                 THEN Raise(observed, "DocumentNotReadyError")
                 ELSE IF \/ ~st.openai_api_key
                         \/ st.openai_embedding_dimensions # EMBEDDING_VECTOR_DIM
                 THEN Raise(observed, "OpenAIConfigurationError")
                 ELSE [observed EXCEPT !.pc = "backfill"]
    /\ UNCHANGED <<docs, pages, spans, chunks, nextPageId, nextSpanId, ingest, statusChanges>>
    /\ UNCHANGED <<chunker, fill, func, llm>>

\* _ensure_chunk_embeddings: nothing to do, or the missing embeddings are
\* requested and committed, or a request or the commit raises.
AskBackfill ==
    /\ req.pc = "backfill"
    /\ LET missing_chunks == MissingChunks(chunks, req.doc)
       IN IF missing_chunks = {}
          THEN /\ req' = [req EXCEPT !.pc = "retrieve",
                                     !.stages = Append(@, "backfill")]
               /\ UNCHANGED chunks
          ELSE \/ /\ chunks' = (chunks \ missing_chunks)
                                 \cup {[c EXCEPT !.embedding = Some(Embed(c.text))] :
                                          c \in missing_chunks}
                  /\ req' = [req EXCEPT !.pc = "retrieve",
                                        !.stages = Append(@, "backfill"),
                                        !.provider_calls =
                                            @ + EmbeddingBatches(Cardinality(missing_chunks)),
                                        !.db_writes = @ + 1]
               \/ /\ req' = BackfillExcept([req EXCEPT !.provider_calls = @ + 1,
                                                       !.stages = Append(@, "backfill"),
                                                       !.failed_stage = "backfill"])
                  /\ UNCHANGED chunks
    /\ UNCHANGED <<docs, pages, spans, nextPageId, nextSpanId, ingest, statusChanges>>
    /\ UNCHANGED <<chunker, fill, func, llm>>

\* _retrieve_chunks and the two retrieval gates.
AskRetrieve ==
    /\ req.pc = "retrieve"
    /\ LET r == [req EXCEPT !.provider_calls = @ + 1,
                            !.stages = Append(@, "retrieve")]
       IN \/ \E stage \in {"question_embedding", "vector_query"} :
                req' = RetrievalExcept([r EXCEPT !.failed_stage = stage])
          \/ \E profile \in DistanceProfiles :
                LET Retrieved(retrieved, rr) ==
                        IF Len(retrieved) = 0
                        THEN Return(rr,
                                 InsufficientResponse("No retrievable chunks were found."),
                                 "No retrievable chunks were found.")
                        ELSE IF ~HasSufficientRetrievalConfidence(req.st, retrieved)
                        THEN Return(rr,
                                 InsufficientResponse("Retrieval confidence is below threshold."),
                                 "Retrieval confidence is below threshold.")
                        ELSE [rr EXCEPT !.context = ContextChunks(req.st, retrieved),
                                        !.pc = "generate"]
                    Query(retrieved) ==
                        Retrieved(retrieved, [r EXCEPT !.retrieved_ok = TRUE,
                                                       !.retrieved = retrieved,
                                                       !.stages = Append(@, "retrieval_gate")])
                IN req' = Query(RetrieveChunks(chunks, req.doc, profile,
                                               req.st.retrieval_top_k))
    /\ UNCHANGED <<docs, pages, spans, chunks, nextPageId, nextSpanId, ingest, statusChanges>>
    /\ UNCHANGED <<chunker, fill, func, llm>>

\* The answers the chat model can write.
ReplyAnswers == { << Blank >>, << "uncertain" >>, << "patel" >> }

\* A citation of a reply: chunk_id parses as a UUID or it does not.
Citation(id) == [is_uuid |-> TRUE, id |-> id]
NotAUuid == [is_uuid |-> FALSE, id |-> <<"d0", 0>>]

\* A chunk id outside the context: the first chunk retrieved beyond the
\* context when there is one, a chunk of another document otherwise.
OutsideContext(r) ==
    IF Len(r.retrieved) > Len(r.context)
    THEN r.retrieved[Len(r.context) + 1].id
    ELSE <<"d0", 0>>

\* The contents the chat model can return for the request.
Replies(r) ==
    {[parsable |-> FALSE, answer |-> << >>, citations |-> << >>]}
    \cup {[parsable |-> TRUE, answer |-> a, citations |-> cs] :
             a \in ReplyAnswers,
             cs \in { << >>,
                      << Citation(r.context[1].id) >>,
                      << Citation(r.context[Min(2, Len(r.context))].id) >>,
                      << Citation(OutsideContext(r)) >>,
                      << Citation(OutsideContext(r)), NotAUuid,
                         Citation(r.context[1].id), Citation(r.context[1].id) >> }}

\* _generate_answer and the rest of ask_question.
AskGenerate ==
    /\ req.pc = "generate"
    /\ LET r == [req EXCEPT !.provider_calls = @ + 1,
                            !.stages = Append(@, "answer_generation")]
       IN \/ req' = GenerateExcept([r EXCEPT !.failed_stage = "answer_generation"])
          \/ \E content \in Replies(req) :
                LET Answered(generated, result) ==
                        Return([r EXCEPT !.unparsed = ~content.parsable,
                                         !.replied = TRUE,
                                         !.reply_answer = generated.answer,
                                         !.cited_chunk_ids = generated.cited_chunk_ids,
                                         !.valid_citations = result.valid_citations,
                                         !.ranked_chunks = result.ranked_chunks,
                                         !.scored_by_key = result.scored_by_key,
                                         !.stages = @ \o result.stages],
                               result.response, result.reason)
                    Generated(generated) ==
                        Answered(generated,
                                 AnswerFromModel(chunks, spans, pages, req.st, req.doc,
                                     req.question, req.context, generated.answer,
                                     generated.cited_chunk_ids))
                IN req' = Generated(GenerateAnswer(content))
    /\ UNCHANGED <<docs, pages, spans, chunks, nextPageId, nextSpanId, ingest, statusChanges>>
    /\ UNCHANGED <<chunker, fill, func, llm>>

----------------------------------------------------------------------------
(* _ensure_chunk_embeddings, statement by statement, in concurrent requests *)

\* The frame of a step of _ensure_chunk_embeddings that writes no row.
FillFrame ==
    UNCHANGED <<docs, pages, spans, nextPageId, nextSpanId, ingest, statusChanges, req,
                chunker, func, llm>>

\* A request enters _ensure_chunk_embeddings.
FillBegin(w) ==
    /\ fill.calls[w].pc \in {"idle", "returned"}
    /\ fill.calls[w].run < MaxFillRuns
    /\ fill' = [fill EXCEPT !.calls[w] =
                   [IdleCall EXCEPT !.pc = "select", !.run = fill.calls[w].run + 1,
                                    !.after_return = (fill.calls[w].pc = "returned")]]
    /\ FillFrame /\ UNCHANGED chunks

\* The select of the chunks without an embedding, and the early return.
FillSelect(w) ==
    /\ fill.calls[w].pc = "select"
    /\ LET missing_chunks == OrderByChunkIndex(MissingChunks(chunks, FillDoc))
       IN fill' = [fill EXCEPT !.calls[w] =
                      IF Len(missing_chunks) = 0
                      THEN [@ EXCEPT !.pc = "returned"]
                      ELSE [@ EXCEPT !.pc = "embed", !.missing_chunks = missing_chunks]]
    /\ FillFrame /\ UNCHANGED chunks

\* One iteration of the batch loop: the request to the provider and the
\* assignments of chunk.embedding, pending in the session.
FillEmbed(w) ==
    /\ fill.calls[w].pc = "embed"
    /\ LET call == fill.calls[w]
           last == Min(call.start + BATCH_SIZE, Len(call.missing_chunks))
           batch == SubSeq(call.missing_chunks, call.start + 1, last)
           texts == [i \in 1..Len(batch) |-> batch[i].text]
       IN fill' = [fill EXCEPT !.calls[w] =
                      [@ EXCEPT !.assigned = @ \o ZipBatch(batch, EmbeddingsCreate(texts)),
                                !.provider_calls = @ + 1,
                                !.start = call.start + BATCH_SIZE,
                                !.pc = IF call.start + BATCH_SIZE < Len(call.missing_chunks)
                                       THEN "embed" ELSE "flush"]]
    /\ FillFrame /\ UNCHANGED chunks

\* Fault variant of FillEmbedFail: the batches embedded before the failure
\* are committed.
FillEmbedFailKeepsEarlierBatches(w) ==
    /\ fill.calls[w].pc = "embed"
    /\ LET assigned == fill.calls[w].assigned
           Written(c) == {i \in 1..Len(assigned) : assigned[i].id = c.id}
       IN chunks' = {IF Written(c) = {} THEN c
                     ELSE [c EXCEPT !.embedding = Some(assigned[MaxOf(Written(c))].embedding)]
                     : c \in chunks}
    /\ fill' = [fill EXCEPT !.calls[w] =
                   [@ EXCEPT !.pc = "raised", !.provider_calls = @ + 1,
                             !.rows_written = Len(fill.calls[w].assigned)]]
    /\ FillFrame

\* The request to the provider raises: the call ends, nothing was written.
FillEmbedFail(w) ==
    /\ fill.calls[w].pc = "embed"
    /\ fill' = [fill EXCEPT !.calls[w] =
                   [@ EXCEPT !.pc = "raised", !.provider_calls = @ + 1,
                             !.assigned = << >>]]
    /\ FillFrame /\ UNCHANGED chunks

\* db.commit(), the flush: the UPDATE of the next pending row, in primary key
\* order; it waits while another transaction holds the lock of the row.
FillFlush(w) ==
    /\ fill.calls[w].pc = "flush"
    /\ fill.calls[w].flushed < Len(fill.calls[w].assigned)
    /\ LET id == fill.calls[w].assigned[fill.calls[w].flushed + 1].id
       IN /\ \A other \in FillCallers \ {w} : <<id, other>> \notin fill.locks
          /\ fill' = [fill EXCEPT !.calls[w].flushed = @ + 1,
                                  !.locks = @ \cup {<<id, w>>}]
    /\ FillFrame /\ UNCHANGED chunks

\* db.commit(), the COMMIT: the updates become the committed rows and the
\* row locks are released.
FillCommit(w) ==
    /\ fill.calls[w].pc = "flush"
    /\ fill.calls[w].flushed = Len(fill.calls[w].assigned)
    /\ LET assigned == fill.calls[w].assigned
           Written(c) == {i \in 1..Len(assigned) : assigned[i].id = c.id}
       IN chunks' = {IF Written(c) = {} THEN c
                     ELSE [c EXCEPT !.embedding = Some(assigned[MaxOf(Written(c))].embedding)]
                     : c \in chunks}
    /\ fill' = [fill EXCEPT !.calls[w].pc = "returned",
                            !.calls[w].rows_written = Len(fill.calls[w].assigned),
                            !.locks = {l \in @ : l[2] # w}]
    /\ FillFrame

\* The steps of the upload route and of the background task.
IngestNext ==
    \/ \E d \in DocIds, pdf \in PDFs : UploadDocument(d, pdf)
    \/ \E d \in DocIds : IngestOpen(d)
    \/ \E d \in DocIds : IngestReset(d)
    \/ \E d \in DocIds : IngestPage(d)
    \/ \E d \in DocIds : IngestFinish(d)
    \/ \E d \in DocIds : IngestFail(d)

\* The steps of the ask route.
AskNext ==
    \/ \E d \in AskedDocs, question \in Questions, st \in SettingsChoices :
          AskStart(d, question, st)
    \/ AskBackfill
    \/ AskRetrieve
    \/ AskGenerate

Next == IngestNext \/ AskNext

Spec == Init /\ [][Next]_vars

\* Uploads and ingestion runs alone; the background task, once scheduled,
\* runs its steps to the end.
IngestSpec ==
    /\ Init
    /\ [][IngestNext]_vars
    /\ \A d \in DocIds :
          WF_vars(IngestOpen(d) \/ IngestReset(d) \/ IngestPage(d) \/ IngestFinish(d))

\* One call of _chunk_span_window on each span list of ChunkInputs; the loop
\* keeps running until it returns.
ChunkInit ==
    /\ InitRows
    /\ fill = NoFill
    /\ func = NoFunction
    /\ llm = NoLadder
    /\ \E lens \in ChunkInputs : chunker = ChunkCall(lens)

ChunkNext == ChunkIterate

FillNext ==
    \/ \E w \in FillCallers : FillBegin(w)
    \/ \E w \in FillCallers : FillSelect(w)
    \/ \E w \in FillCallers : FillEmbed(w)
    \/ \E w \in FillCallers : FillEmbedFail(w)
    \/ \E w \in FillCallers : FillFlush(w)
    \/ \E w \in FillCallers : FillCommit(w)

\* Two requests on the 'ready' document "d0", whose chunks have no embedding
\* yet, each calling _ensure_chunk_embeddings up to MaxFillRuns times; a call
\* that can take a step eventually takes one.
FillSpec ==
    /\ Init
    /\ [][FillNext]_vars
    /\ \A w \in FillCallers :
          WF_vars(FillSelect(w) \/ FillEmbed(w) \/ FillFlush(w) \/ FillCommit(w))

ChunkSpec == ChunkInit /\ [][ChunkNext]_vars /\ WF_vars(ChunkIterate)

\* One call of _should_use_ocr on each pair of word metrics.
OcrInit ==
    /\ InitRows
    /\ chunker = NoCall
    /\ fill = NoFill
    /\ llm = NoLadder
    /\ \E native_count \in WordCounts, native_ratio \in AlnumRatios,
          ocr_count \in WordCounts, ocr_ratio \in AlnumRatios :
          func = OcrCall(<<native_count, native_ratio>>, <<ocr_count, ocr_ratio>>)

OcrNext == OcrDecide

OcrSpec == OcrInit /\ [][OcrNext]_vars

\* One call of _create_llm_json_response_for_model for each chat model.
LadderInit ==
    /\ InitRows
    /\ chunker = NoCall
    /\ fill = NoFill
    /\ func = NoFunction
    /\ \E model_name \in ChatModels : llm = LadderCall(model_name)

LadderNext == LlmChat \/ LlmRetry \/ LlmResponses

LadderSpec == LadderInit /\ [][LadderNext]_vars

----------------------------------------------------------------------------
(* Calls of _filter_scored_evidence *)

\* Scores of evidence items, in hundredths.
ItemScores == {-50, 0, 20, 60, 72, 100}

\* Where an evidence item lies: page, y1, x1.
ItemPlaces == {<<1, 7200, 7200>>, <<2, 1000, 7200>>}

ScoredItem(score, place) ==
    [score |-> score * Scale,
     item |-> [page |-> place[1], bbox |-> [y1 |-> place[2], x1 |-> place[3]]]]

ScoredItems == {ScoredItem(score, place) : score \in ItemScores, place \in ItemPlaces}

MaxItems == 3

\* The evidence settings of a deployment, within their ranges.
EvidenceSettings ==
    {[DefaultSettings EXCEPT !.evidence_relative_score_threshold = rel,
                             !.evidence_drop_ratio_stop = drop,
                             !.evidence_min_absolute_score = floor,
                             !.answer_max_evidence_items = cut] :
        rel \in {0, 60}, drop \in {0, 72}, floor \in {0, 20}, cut \in {0, 2}}

\* Entry of _filter_scored_evidence.
FilterCall(scored_items, st) ==
    [fn |-> "_filter_scored_evidence", pc |-> "called",
     scored_items |-> scored_items, st |-> st, result |-> << >>]

\* _filter_scored_evidence returns.
FilterReturn ==
    /\ func.fn = "_filter_scored_evidence" /\ func.pc = "called"
    /\ func' = [func EXCEPT !.pc = "returned",
                            !.result = FilterScoredEvidence(func.scored_items, func.st)]
    /\ UNCHANGED <<docs, pages, spans, chunks, nextPageId, nextSpanId, ingest,
                   statusChanges, req, chunker, fill, llm>>

FilterInit ==
    /\ InitRows
    /\ chunker = NoCall
    /\ fill = NoFill
    /\ llm = NoLadder
    /\ \E n \in 1..MaxItems, st \in EvidenceSettings :
          \E scored_items \in [1..n -> ScoredItems] : func = FilterCall(scored_items, st)

FilterNext == FilterReturn

FilterSpec == FilterInit /\ [][FilterNext]_vars

----------------------------------------------------------------------------
(* Line selection of _chunk_evidence_items on one page *)

\* The texts of the lines of a page.
LineTexts == {<<"patel">>, <<"order">>, <<"blob">>, <<"doctor">>,
              <<"signed", "by", "patel">>}

MaxLines == 3

\* The questions and answers that reach _build_evidence: stripped, not empty.
LineQuestions == {Strip(question) : question \in Questions} \ {<< >>}
LineAnswers == {<<"patel">>, <<"doctor", "order">>, <<"the">>}

\* The spans of a page whose k-th line shows texts[k], word after word.
PageSpansOf(texts) ==
    Flatten([k \in 1..Len(texts) |->
        [i \in 1..Len(texts[k]) |->
            [text |-> texts[k][i],
             x1 |-> 5000 + 6000 * (i - 1), x2 |-> 10000 + 6000 * (i - 1),
             y1 |-> 10000 + 2000 * (k - 1), y2 |-> 11000 + 2000 * (k - 1)]]])

\* Entry of the page loop of _chunk_evidence_items.
LinesCall(page_spans, question, answer) ==
    [fn |-> "_chunk_evidence_items", pc |-> "called", page_spans |-> page_spans,
     question |-> question, answer |-> answer, line_candidates |-> << >>,
     ranked_lines |-> << >>, selected_indices |-> << >>]

\* One page of _chunk_evidence_items up to its selected_indices.
LinesSelect ==
    /\ func.fn = "_chunk_evidence_items" /\ func.pc = "called"
    /\ LET question_terms == TokenizeQuestionTerms(func.question)
           answer_terms == TokenizeQuestionTerms(func.answer)
           prefer_signature_lines == QuestionTargetsSignerEvidence(func.question)
           w == NormalizeEvidenceWeights(DefaultSettings.evidence_question_weight,
                                         DefaultSettings.evidence_answer_weight)
           Selected(line_candidates, ranked_lines) ==
               [func EXCEPT !.pc = "returned",
                            !.line_candidates = line_candidates,
                            !.ranked_lines = ranked_lines,
                            !.selected_indices =
                                SelectedLineIndices(ranked_lines, line_candidates,
                                    question_terms, answer_terms,
                                    DefaultSettings.retrieval_min_keyword_overlap,
                                    prefer_signature_lines)]
           Ranked(line_candidates) ==
               Selected(line_candidates,
                        RankLineCandidatesWithContext(line_candidates, question_terms,
                                                      answer_terms, w))
       IN func' = Ranked(LineCandidates(func.page_spans, question_terms, answer_terms,
                                        w, prefer_signature_lines))
    /\ UNCHANGED <<docs, pages, spans, chunks, nextPageId, nextSpanId, ingest,
                   statusChanges, req, chunker, fill, llm>>

LinesInit ==
    /\ InitRows
    /\ chunker = NoCall
    /\ fill = NoFill
    /\ llm = NoLadder
    /\ \E n \in 1..MaxLines, question \in LineQuestions, answer \in LineAnswers :
          \E texts \in [1..n -> LineTexts] :
              func = LinesCall(PageSpansOf(texts), question, answer)

LinesNext == LinesSelect

LinesSpec == LinesInit /\ [][LinesNext]_vars

----------------------------------------------------------------------------
(* Calls of _expand_chunks_for_evidence *)

MaxChunks == 4
MaxCited == 3

\* A Chunk row of a document, without embedding.
ChunkRowOf(d, chunk_index) ==
    [document_id |-> d, id |-> <<d, chunk_index>>, chunk_index |-> chunk_index,
     text |-> <<"order">>, page_start |-> Some(1), page_end |-> Some(1),
     span_start_id |-> Some(1), span_end_id |-> Some(1), embedding |-> NULL]

\* The chunk table of a document of n chunks beside a document of MaxChunks.
ChunkTableOf(n) ==
    {ChunkRowOf("d1", i) : i \in 0..(n - 1)}
        \cup {ChunkRowOf("d0", i) : i \in 0..(MaxChunks - 1)}

\* Entry of _expand_chunks_for_evidence.
ExpandCall(table, document_id, cited) ==
    [fn |-> "_expand_chunks_for_evidence", pc |-> "called", table |-> table,
     document_id |-> document_id, chunks |-> cited, result |-> << >>]

\* _expand_chunks_for_evidence returns.
ExpandReturn ==
    /\ func.fn = "_expand_chunks_for_evidence" /\ func.pc = "called"
    /\ func' = [func EXCEPT !.pc = "returned",
                            !.result = ExpandChunksForEvidence(func.table,
                                           func.document_id, func.chunks)]
    /\ UNCHANGED <<docs, pages, spans, chunks, nextPageId, nextSpanId, ingest,
                   statusChanges, req, chunker, fill, llm>>

\* The cited chunks are context chunks of the document, in the order of the
\* reply's citations.
ExpandInit ==
    /\ InitRows
    /\ chunker = NoCall
    /\ fill = NoFill
    /\ llm = NoLadder
    /\ \E n \in 1..MaxChunks, m \in 1..MaxCited :
          \E cited \in [1..m -> 0..(n - 1)] :
              func = ExpandCall(ChunkTableOf(n), "d1",
                         [k \in 1..m |-> AsRetrieved(ChunkRowOf("d1", cited[k]), Some(120))])

ExpandNext == ExpandReturn

ExpandSpec == ExpandInit /\ [][ExpandNext]_vars

\* The document "d0" with many chunks: the first `embedded` of them have an
\* embedding, the others none.
LargeDocuments == {65, 129} \X {0, 1}

LargeChunkTable(n, embedded) ==
    {[ChunkRowOf("d0", i) EXCEPT !.embedding =
          IF i < embedded THEN Some(Embed(<<"order">>)) ELSE NULL] : i \in 0..(n - 1)}

\* One request calling _ensure_chunk_embeddings on a document whose missing
\* chunks fill more than one batch.
BackfillInit ==
    /\ docs = [d \in DocIds |-> IF d = "d0" THEN ReadyRow(ArchivedPdf) ELSE AbsentDoc]
    /\ pages = {PageRow("d0", k, k, ArchivedPdf[k]) : k \in 1..Len(ArchivedPdf)}
    /\ spans = SeqToSet(SpanRefs("d0", ArchivedPdf, 1, 1, 1))
    /\ \E large \in LargeDocuments : chunks = LargeChunkTable(large[1], large[2])
    /\ nextPageId = Len(ArchivedPdf) + 1
    /\ nextSpanId = Len(SpanRefs("d0", ArchivedPdf, 1, 1, 1)) + 1
    /\ ingest = [d \in DocIds |-> IF d = "d0" THEN [NoTask EXCEPT !.pc = "done"] ELSE NoTask]
    /\ statusChanges = [d \in DocIds |-> IF d = "d0" THEN 1 ELSE 0]
    /\ req = IdleReq
    /\ chunker = NoCall
    /\ fill = NoFill
    /\ func = NoFunction
    /\ llm = NoLadder

BackfillNext ==
    \/ FillBegin("a")
    \/ FillSelect("a")
    \/ FillEmbed("a")
    \/ FillEmbedFail("a")
    \/ FillFlush("a")
    \/ FillCommit("a")

BackfillSpec == BackfillInit /\ [][BackfillNext]_vars

----------------------------------------------------------------------------
(* Properties *)

\* The body of the insufficient-evidence response.
CannedResponse == [answer |-> INSUFFICIENT_EVIDENCE_ANSWER, evidence |-> << >>]

\* The request was answered with a response body.
Responded == req.pc = "done" /\ req.http_status = 200 /\ req.response # NULL

\* The ids of the context chunks sent to the model.
ContextIds == {req.context[k].id : k \in 1..Len(req.context)}

\* C1: the status of an uploaded document starts as 'processing', changes
\* exactly once, to 'ready' or to 'error', and never changes after that: a
\* step creates the row in 'processing', a step leaves 'processing' only for
\* 'ready' or 'error', no step changes 'ready' or 'error', no more than one
\* change is ever committed, and a document in 'processing' does leave it.
C1_StatusChangesExactlyOnce ==
    /\ [][\A d \in DocIds :
            /\ docs[d].status = "absent" /\ docs'[d].status # "absent"
                  => docs'[d].status = "processing" /\ statusChanges'[d] = 0
            /\ docs[d].status = "processing"
                  => docs'[d].status \in {"processing", "ready", "error"}
            /\ docs[d].status \in {"ready", "error"}
                  => docs'[d].status = docs[d].status
            /\ statusChanges'[d] <= 1]_vars
    /\ \A d \in DocIds :
          (docs[d].status = "processing")
              ~> (docs[d].status \in {"ready", "error"} /\ statusChanges[d] = 1)

\* C1 witness: the uploaded document went from 'processing' to 'ready', its
\* one change of status.
C1_Witness ==
    /\ docs["d1"].status = "ready"
    /\ statusChanges["d1"] = 1
    /\ ingest["d1"].pc = "done"

\* C2: a response of ask_question is the canned answer with no evidence, or
\* every evidence item of it has a box of positive area that intersects a
\* stored span of the same document on the item's page; a gate that fails
\* returns the canned answer with no evidence, and an answer of the model is
\* only returned with evidence of that kind.
C2_ResponseCannedOrGrounded ==
    Responded =>
        LET response == req.response[1]
            Grounded(item) ==
                /\ item.bbox.x2 > item.bbox.x1
                /\ item.bbox.y2 > item.bbox.y1
                /\ \E sp \in spans : \E pg \in pages :
                      /\ sp.document_id = req.doc
                      /\ sp.page_id = pg.id
                      /\ pg.document_id = req.doc
                      /\ pg.page_number = item.page
                      /\ sp.x2 > item.bbox.x1 /\ sp.x1 < item.bbox.x2
                      /\ sp.y2 > item.bbox.y1 /\ sp.y1 < item.bbox.y2
        IN /\ \/ response = CannedResponse
              \/ \A i \in 1..Len(response.evidence) : Grounded(response.evidence[i])
           /\ req.reason # "" => response = CannedResponse
           /\ response.answer = INSUFFICIENT_EVIDENCE_ANSWER => response.evidence = << >>
           /\ req.reason = "" =>
                 /\ response.answer = req.reply_answer
                 /\ \A i \in 1..Len(response.evidence) : Grounded(response.evidence[i])

\* C2 witness: the answer of the model is returned with evidence.
C2_Witness ==
    /\ Responded
    /\ req.reason = ""
    /\ Len(req.response[1].evidence) >= 1

\* C3: after a run of process_document_metadata failed, the committed Page,
\* Span and Chunk rows of the document are those committed before the run
\* began, the status is 'error' and total_pages, page_width and page_height
\* are NULL.
C3_FailedRunLeavesNoRows ==
    \A d \in DocIds :
        (ingest[d].pc = "done" /\ docs[d].status = "error") =>
            /\ RowsOf(pages, d) = ingest[d].before.pages
            /\ RowsOf(spans, d) = ingest[d].before.spans
            /\ RowsOf(chunks, d) = ingest[d].before.chunks
            /\ docs[d].total_pages = NULL
            /\ docs[d].page_width = NULL
            /\ docs[d].page_height = NULL

\* C3 witness: a run failed on its second page, after the first page and its
\* spans had been flushed.
C3_Witness ==
    /\ ingest["d1"].pc = "done"
    /\ docs["d1"].status = "error"
    /\ ingest["d1"].flushed = 1

\* C4: a call of ask_question that reads a status other than 'ready' ends
\* with DocumentNotReadyError (409) without a provider call or a database
\* write, and a response body is only ever produced for a document whose
\* committed status is 'ready'.
C4_NotReadyIsRejected ==
    /\ req.observed_status \in {"processing", "error"} =>
          /\ req.pc = "done"
          /\ req.error = "DocumentNotReadyError"
          /\ req.http_status = 409
          /\ req.response = NULL
          /\ req.provider_calls = 0
          /\ req.db_writes = 0
    /\ (req.provider_calls > 0 \/ req.db_writes > 0 \/ req.response # NULL) =>
          docs[req.doc].status = "ready"

\* C4 witness: the question arrived while the run of the document was between
\* two pages.
C4_Witness ==
    /\ req.pc = "done"
    /\ req.observed_status = "processing"
    /\ req.http_status = 409
    /\ ingest[req.doc].pc = "pages"
    /\ ingest[req.doc].page_idx = 1

\* C5: in a committed document row, total_pages, page_width and page_height
\* are all set when the status is 'ready' and all NULL otherwise.
C5_MetadataIffReady ==
    \A d \in DocIds :
        docs[d].status # "absent" =>
            IF docs[d].status = "ready"
            THEN /\ docs[d].total_pages # NULL
                 /\ docs[d].page_width # NULL
                 /\ docs[d].page_height # NULL
            ELSE /\ docs[d].total_pages = NULL
                 /\ docs[d].page_width = NULL
                 /\ docs[d].page_height = NULL

\* C5 witness: the uploaded document became 'ready' with two pages.
C5_Witness ==
    /\ docs["d1"].status = "ready"
    /\ docs["d1"].total_pages = Some(2)

\* C6: when no chunk is retrieved, or the smallest distance retrieved is
\* above retrieval_max_vector_distance, the response is the canned one and the
\* model is not called; otherwise the gate passes and the context is the
\* first min(retrieval_max_context_chunks, number retrieved) chunks in
\* retrieval order, whatever their own distance.
C6_RetrievalGateAndContext ==
    req.retrieved_ok =>
        LET n == Len(req.retrieved)
            smallest == MinOf({req.retrieved[k].distance[1] : k \in 1..n})
            size == IF req.st.retrieval_max_context_chunks <= n
                    THEN req.st.retrieval_max_context_chunks ELSE n
        IN IF n = 0 \/ smallest > req.st.retrieval_max_vector_distance
           THEN /\ Responded
                /\ req.response[1] = CannedResponse
                /\ req.context = << >>
                /\ ~req.replied
                /\ req.failed_stage = "none"
           ELSE /\ req.reason \notin {"No retrievable chunks were found.",
                                      "Retrieval confidence is below threshold."}
                /\ req.pc = "generate" \/ req.replied
                      \/ req.failed_stage = "answer_generation"
                /\ Len(req.context) = size
                /\ \A k \in 1..size : req.context[k] = req.retrieved[k]

\* C6 witness: the gate passed on the nearest chunk and the context holds a
\* chunk whose distance is above the threshold.
C6_Witness ==
    /\ req.retrieved_ok
    /\ Len(req.context) >= 2
    /\ req.context[1].distance[1] <= req.st.retrieval_max_vector_distance
    /\ \E k \in 1..Len(req.context) :
          req.context[k].distance[1] > req.st.retrieval_max_vector_distance

\* C7: the citations kept are the cited ids that belong to a context chunk,
\* in the order cited; when require_llm_citations is set and none is kept the
\* response is the canned one; the evidence ranker only receives context
\* chunks.
C7_CitationsWithinContext ==
    req.replied =>
        /\ \A k \in 1..Len(req.valid_citations) : req.valid_citations[k] \in ContextIds
        /\ \A k \in 1..Len(req.cited_chunk_ids) :
              req.cited_chunk_ids[k] \in ContextIds
                  => \E j \in 1..Len(req.valid_citations) :
                        req.valid_citations[j] = req.cited_chunk_ids[k]
        /\ (req.st.require_llm_citations
            /\ \A k \in 1..Len(req.cited_chunk_ids) : req.cited_chunk_ids[k] \notin ContextIds)
              => Responded /\ req.response[1] = CannedResponse
        /\ \A k \in 1..Len(req.ranked_chunks) :
              \E j \in 1..Len(req.context) : req.context[j] = req.ranked_chunks[k]

\* C7 witness: the model cited a chunk outside the context and a context
\* chunk, and the ranker received the context chunk alone.
C7_Witness ==
    /\ req.replied
    /\ \E k \in 1..Len(req.cited_chunk_ids) : req.cited_chunk_ids[k] \notin ContextIds
    /\ Len(req.valid_citations) = 1
    /\ Len(req.ranked_chunks) = 1

\* C8: an answer of the model that is empty after trimming, or that holds an
\* uncertainty marker, gives the canned response, for each value of
\* require_llm_citations and each set of citations.
C8_EmptyOrUncertainAnswerIsCanned ==
    (req.replied
     /\ \/ Len(req.reply_answer) = 0
        \/ \E k \in 1..Len(req.reply_answer) : req.reply_answer[k] = "uncertain")
        => /\ Responded
           /\ req.response[1] = CannedResponse

\* C8 witness: citations are not required, the model cited nothing valid and
\* its answer holds an uncertainty marker.
C8_Witness ==
    /\ req.replied
    /\ ~req.st.require_llm_citations
    /\ req.valid_citations = << >>
    /\ req.reply_answer = << "uncertain" >>

\* C9: a failure while the chunk embeddings are back-filled ends the request
\* with QAError (500) and no response body; a failure while the question is
\* embedded or the vector query runs ends it with the canned response (200)
\* and no error.
C9_FailureClassifiedByStage ==
    /\ req.failed_stage = "backfill" =>
          /\ req.pc = "done"
          /\ req.error = "QAError"
          /\ req.http_status = 500
          /\ req.response = NULL
    /\ req.failed_stage \in {"question_embedding", "vector_query"} =>
          /\ Responded
          /\ req.response[1] = CannedResponse
          /\ req.error = "none"

\* C9 witness: the vector query failed after the embeddings had been
\* back-filled by the same request.
C9_Witness ==
    /\ req.failed_stage = "vector_query"
    /\ req.db_writes = 1
    /\ req.pc = "done"

\* C10, as stated: every infrastructure failure of a request (a provider
\* failure in any stage, a reply that cannot be parsed, a back-fill failure)
\* ends the request with status 500 and none ends it with status 200.
C10_EveryFailureIs500 ==
    (req.pc = "done" /\ (req.failed_stage # "none" \/ req.unparsed))
        => req.http_status = 500

\* C10, amended: a failure of the back-fill or of the answer generation call
\* ends the request with status 500; a failure of the retrieval stage and a
\* reply that cannot be parsed end it with status 200 and the canned response.
C10_FailureStatusByStage ==
    (req.pc = "done" /\ (req.failed_stage # "none" \/ req.unparsed)) =>
        IF req.failed_stage \in {"backfill", "answer_generation"}
        THEN req.http_status = 500 /\ req.response = NULL
        ELSE req.http_status = 200 /\ req.response = Some(CannedResponse)

\* C10 witness: the reply of the model could not be parsed.
C10_Witness ==
    /\ req.pc = "done"
    /\ req.unparsed
    /\ req.http_status = 200

----------------------------------------------------------------------------
(* Properties of _chunk_span_window, checked under ChunkSpec *)

\* The call of _chunk_span_window has returned.
ChunkReturned == chunker.pc = "done"

\* The number of spans of window k of the call.
WindowSize(k) == chunker.windows[k][2] - chunker.windows[k][1]

\* Window k was closed by the character limit, not by the end of the list.
ClosedByLimit(k) == chunker.windows[k][2] < Len(chunker.lens)

\* The length of the joined text of window k: the text lengths and one
\* separator per gap.
JoinedLength(k) ==
    SumSeq([i \in 1..WindowSize(k) |-> chunker.lens[chunker.windows[k][1] + i]])
    + (WindowSize(k) - 1)

\* C15: on a non-empty span list the first window starts at index 0, the last
\* window ends at len(spans), each window starts at or before the end of the
\* previous one, and every span index lies in some window; the span ids of a
\* 'ready' document all lie in the span range of one of its chunks.
C15_WindowsCoverEverySpan ==
    /\ ChunkReturned /\ Len(chunker.lens) > 0 =>
          LET W == chunker.windows
          IN /\ Len(W) >= 1
             /\ W[1][1] = 0
             /\ W[Len(W)][2] = Len(chunker.lens)
             /\ \A k \in 1..(Len(W) - 1) : W[k + 1][1] <= W[k][2]
             /\ \A i \in 0..(Len(chunker.lens) - 1) :
                    \E k \in 1..Len(W) : W[k][1] <= i /\ i < W[k][2]
    /\ \A d \in DocIds :
          docs[d].status = "ready" =>
             \A s \in RowsOf(spans, d) :
                \E c \in RowsOf(chunks, d) :
                   c.span_start_id[1] <= s.id /\ s.id <= c.span_end_id[1]

\* C15 witness: a call returned three windows or more, two of which overlap.
C15_Witness ==
    /\ ChunkReturned
    /\ Len(chunker.windows) >= 3
    /\ \E k \in 1..(Len(chunker.windows) - 1) :
          chunker.windows[k + 1][1] < chunker.windows[k][2]

\* C18 as stated: 45 spans of text length 20 give exactly three windows, the
\* first 0..42, the second starting at 22, the third starting at 24 and
\* holding 21 spans.
C18_ThreeWindows ==
    ChunkReturned /\ chunker.lens = UniformLens(45, 20) =>
       /\ Len(chunker.windows) = 3
       /\ chunker.windows[1] = <<0, 42>>
       /\ chunker.windows[2][1] = 22
       /\ chunker.windows[3][1] = 24
       /\ WindowSize(3) = 21

\* C18, amended: 45 spans of text length 20 give exactly two windows, the
\* first holding the 42 spans from index 0, the second starting at index 22
\* and holding the 23 spans up to the end of the list.
C18_TwoWindows ==
    ChunkReturned /\ chunker.lens = UniformLens(45, 20) =>
       chunker.windows = << <<0, 42>>, <<22, 45>> >>

\* C18 witness: the call on 45 spans of text length 20 returned.
C18_Witness ==
    /\ ChunkReturned
    /\ chunker.lens = UniformLens(45, 20)
    /\ Len(chunker.windows) = 2

\* C19 as stated: two adjacent windows that were both closed by the character
\* limit overlap in exactly 20 span positions, and the joined length of a
\* window is at most 900 unless it holds a single span.
C19_OverlapExactly20 ==
    ChunkReturned =>
       /\ \A k \in 1..(Len(chunker.windows) - 1) :
             ClosedByLimit(k) /\ ClosedByLimit(k + 1) =>
                chunker.windows[k][2] - chunker.windows[k + 1][1] = 20
       /\ \A k \in 1..Len(chunker.windows) :
             JoinedLength(k) <= 900 \/ WindowSize(k) = 1

\* C19, amended: two adjacent windows that were both closed by the character
\* limit overlap in min(20, n - 1) span positions, n being the number of spans
\* of the first of the two, which is 20 exactly when that window holds more
\* than 20 spans; the joined length of a window is at most 900 unless it
\* holds a single span.
C19_OverlapUpTo20 ==
    ChunkReturned =>
       /\ \A k \in 1..(Len(chunker.windows) - 1) :
             ClosedByLimit(k) /\ ClosedByLimit(k + 1) =>
                chunker.windows[k][2] - chunker.windows[k + 1][1]
                   = Min(20, WindowSize(k) - 1)
       /\ \A k \in 1..Len(chunker.windows) :
             JoinedLength(k) <= 900 \/ WindowSize(k) = 1

\* C19 witness: two adjacent windows closed by the character limit, the first
\* holding at least two and at most 20 spans.
C19_Witness ==
    /\ ChunkReturned
    /\ \E k \in 1..(Len(chunker.windows) - 1) :
          /\ ClosedByLimit(k) /\ ClosedByLimit(k + 1)
          /\ WindowSize(k) >= 2 /\ WindowSize(k) <= 20

\* C20: every iteration of the outer loop emits a window of at least one
\* span, the start index grows with every iteration, no more than len(spans)
\* windows are emitted, and the call returns.
C20_WindowLoopTerminates ==
    /\ [][chunker.pc = "loop" =>
            /\ Len(chunker'.windows) > Len(chunker.windows) =>
                  chunker'.windows[Len(chunker'.windows)][2]
                     > chunker'.windows[Len(chunker'.windows)][1]
            /\ chunker'.pc = "loop" => chunker'.start > chunker.start
            /\ Len(chunker'.windows) <= Len(chunker.lens)]_vars
    /\ <>ChunkReturned

\* C20 witness: a call on two spans or more returned as many windows as the
\* list has spans.
C20_Witness ==
    /\ ChunkReturned
    /\ Len(chunker.lens) >= 2
    /\ Len(chunker.windows) = Len(chunker.lens)

----------------------------------------------------------------------------
(* Properties of the ingestion task, continued *)

\* C11: a document that is 'processing' eventually is 'ready' or 'error'; a
\* task that has ended has returned without raising and has left the
\* document 'ready' with error_message NULL or 'error' with an error_message.
C11_IngestionEndsReadyOrError ==
    /\ [](\A d \in DocIds :
            /\ ingest[d].pc = "done" =>
                  /\ ~ingest[d].raised
                  /\ docs[d].status \in {"ready", "error"}
            /\ docs[d].status = "error" => docs[d].error_message # NULL
            /\ docs[d].status = "ready" => docs[d].error_message = NULL
            /\ docs[d].status = "processing" => ingest[d].pc # "done")
    /\ \A d \in DocIds :
          (docs[d].status = "processing") ~> (docs[d].status \in {"ready", "error"})

\* C11 witness: the PDF of the upload could not be opened or had no page; the
\* task has returned and the document is 'error' with an error_message.
C11_Witness ==
    /\ ingest["d1"].pc = "done"
    /\ ~ingest["d1"].raised
    /\ ingest["d1"].flushed = 0
    /\ docs["d1"].status = "error"
    /\ docs["d1"].error_message # NULL

----------------------------------------------------------------------------
(* Properties of _ensure_chunk_embeddings, checked under FillSpec *)

\* Every chunk of the document has an embedding.
FullyEmbedded ==
    \A c \in chunks : c.document_id = FillDoc => c.embedding # NULL

\* C12: a call of _ensure_chunk_embeddings that finds every chunk of the
\* document embedded returns without a provider call and without changing a
\* row; a call made right after a call that returned makes no provider call
\* and writes no row, so that the rows are those the first call left.
C12_BackfillIsIdempotent ==
    /\ [][\A w \in FillCallers :
            /\ fill.calls[w].pc = "select" /\ fill'.calls[w].pc # "select" /\ FullyEmbedded
                  => /\ fill'.calls[w].pc = "returned"
                     /\ fill'.calls[w].provider_calls = 0
                     /\ fill'.calls[w].rows_written = 0
                     /\ chunks' = chunks
            /\ fill.calls[w].after_return /\ fill'.calls[w] # fill.calls[w]
                  /\ fill'.calls[w].after_return
                  => /\ chunks' = chunks
                     /\ fill'.calls[w].provider_calls = 0
                     /\ fill'.calls[w].pc \in {"returned", "select"}]_vars
    /\ [](\A w \in FillCallers :
            fill.calls[w].pc = "returned" => FullyEmbedded)

\* C12 witness: the second call of a request has returned.
C12_Witness ==
    \E w \in FillCallers :
       /\ fill.calls[w].run = 2
       /\ fill.calls[w].after_return
       /\ fill.calls[w].pc = "returned"

\* C17: with two requests back-filling the same document, every call that
\* has begun ends; when one has returned every chunk has an embedding; an
\* embedding that is stored is the provider's embedding of the text of its
\* own chunk, and no step stores NULL over an embedding.
C17_ConcurrentBackfillIsBenign ==
    /\ \A w \in FillCallers :
          (fill.calls[w].pc \in {"select", "embed", "flush"})
             ~> (fill.calls[w].pc \in {"returned", "raised"})
    /\ [](\A w \in FillCallers :
            fill.calls[w].pc = "returned" =>
               \A c \in chunks : c.document_id = FillDoc => c.embedding # NULL)
    /\ [](\A c \in chunks :
            c.embedding # NULL => c.embedding = Some(Embed(c.text)))
    /\ [][\A c \in chunks :
            c.embedding # NULL =>
               \E n \in chunks' : n.id = c.id /\ n.embedding = c.embedding]_vars

\* C17 witness: both requests selected the chunks before either committed,
\* and both have written every chunk.
C17_Witness ==
    /\ \A w \in FillCallers :
          /\ fill.calls[w].run = 1
          /\ fill.calls[w].pc = "returned"
          /\ fill.calls[w].rows_written >= 2
    /\ fill.locks = {}

----------------------------------------------------------------------------
(* C13 *)

\* The scored items _build_evidence met for the chunks it was handed, in the
\* order it met them.
CandidatesOfRequest ==
    ScoredCandidates(chunks, spans, pages, req.st, req.question, req.reply_answer,
                     req.doc, req.ranked_chunks)

\* No two entries of a sequence of evidence items have the same key.
KeysUnique(items) ==
    \A i, j \in 1..Len(items) : EvidenceKey(items[i]) = EvidenceKey(items[j]) => i = j

\* C13: in the evidence list of a response no two items have the same key
\* (page, x1, y1, x2, y2) rounded to 0.1 pt; every item of the list is one
\* the merge kept, and for every candidate item the merge kept a candidate
\* of the same key whose final score is at least the candidate's, so that of
\* two colliding candidates with different scores the higher one is kept.
C13_EvidenceKeysUniqueHigherScoreKept ==
    (req.pc = "done" /\ req.response # NULL) =>
        LET Holds(evidence, candidates, kept) ==
                /\ KeysUnique(evidence)
                /\ KeysUnique([k \in 1..Len(kept) |-> kept[k].item])
                /\ \A i \in 1..Len(evidence) :
                      \E k \in 1..Len(kept) : kept[k].item = evidence[i]
                /\ \A k \in 1..Len(kept) :
                      \E c \in 1..Len(candidates) : candidates[c] = kept[k]
                /\ \A c \in 1..Len(candidates) :
                      \E k \in 1..Len(kept) :
                          /\ EvidenceKey(kept[k].item) = EvidenceKey(candidates[c].item)
                          /\ kept[k].score >= candidates[c].score
        IN Holds(req.response[1].evidence,
                 IF Len(req.ranked_chunks) = 0 THEN << >> ELSE CandidatesOfRequest,
                 req.scored_by_key)

\* A response with evidence for which two candidates of different chunks
\* collided on a key with different scores, the later one higher, and the
\* entry kept for the key has the higher score.
C13_Witness ==
    /\ req.pc = "done" /\ req.response # NULL
    /\ Len(req.ranked_chunks) > 0
    /\ Len(req.response[1].evidence) > 0
    /\ LET Collides(candidates, kept) ==
               \E a, b \in 1..Len(candidates) :
                   /\ a < b
                   /\ EvidenceKey(candidates[a].item) = EvidenceKey(candidates[b].item)
                   /\ candidates[a].score < candidates[b].score
                   /\ \E k \in 1..Len(kept) : kept[k] = candidates[b]
       IN Collides(CandidatesOfRequest, req.scored_by_key)

----------------------------------------------------------------------------
(* C14 *)

\* The spans of one page of a document, in reading order.
SpansOfPage(d, page_number) ==
    LET Rows(rows) ==
            [i \in 1..Len(rows) |-> rows[i].span]
    IN Rows(SelectSeq(SpanRowsInRange(spans, pages, d, 0, nextSpanId),
                      LAMBDA r : r.page_number = page_number))

\* The item shows spans of its page: its box is their bounding box and its
\* text is their words from left to right.
ItemComesFromSpans(d, item) ==
    LET OnPage(page_spans) ==
            \E L \in SUBSET (1..Len(page_spans)) :
                /\ L # {}
                /\ LET line == SelectSeq([i \in 1..Len(page_spans) |->
                                           IF i \in L THEN << page_spans[i] >> ELSE << >>],
                                        LAMBDA x : Len(x) = 1)
                       Line(ordered) ==
                           /\ BBoxOf(ordered) = item.bbox
                           /\ [i \in 1..Len(ordered) |-> ordered[i].text] = item.text
                   IN Line(SortByKeys([i \in 1..Len(line) |-> line[i][1]],
                                      [i \in 1..Len(line) |-> << line[i][1].x1 >>]))
    IN OnPage(SpansOfPage(d, item.page))

\* Some line of the page has a signature signal of at least the threshold.
PageHasSigningLine(d, page_number) ==
    LET Lines(groups) ==
            \E g \in 1..Len(groups) :
                SignatureLineSignal([i \in 1..Len(groups[g]) |-> groups[g][i].text])
                    >= SIGNATURE_SIGNAL_THRESHOLD
        Sorted(groups) ==
            Lines([g \in 1..Len(groups) |->
                      SortByKeys(groups[g],
                                 [i \in 1..Len(groups[g]) |-> << groups[g][i].x1 >>])])
    IN Sorted(GroupSpansIntoLines(SpansOfPage(d, page_number)))

\* C14: when the question is in signature mode, every evidence item of the
\* response shows a line of its page whose signature signal is at least 0.9,
\* and a page none of whose lines reaches 0.9 has no item in the response.
C14_SignatureModeKeepsSigningLinesOnly ==
    (req.pc = "done" /\ req.response # NULL
        /\ QuestionTargetsSignerEvidence(req.question)) =>
        LET Holds(evidence) ==
                /\ \A i \in 1..Len(evidence) :
                      /\ ItemComesFromSpans(req.doc, evidence[i])
                      /\ SignatureLineSignal(evidence[i].text) >= SIGNATURE_SIGNAL_THRESHOLD
                /\ \A pg \in pages :
                      (pg.document_id = req.doc
                          /\ ~PageHasSigningLine(req.doc, pg.page_number)) =>
                          \A i \in 1..Len(evidence) : evidence[i].page # pg.page_number
        IN Holds(req.response[1].evidence)

\* A signature-mode response that shows a signing line of a page which also
\* has a line below the threshold.
C14_Witness ==
    /\ req.pc = "done" /\ req.response # NULL
    /\ QuestionTargetsSignerEvidence(req.question)
    /\ Len(req.response[1].evidence) > 0
    /\ LET Below(groups) ==
               \E g \in 1..Len(groups) :
                   SignatureLineSignal([i \in 1..Len(groups[g]) |-> groups[g][i].text])
                       < SIGNATURE_SIGNAL_THRESHOLD
       IN Below(GroupSpansIntoLines(SpansOfPage(req.doc, req.response[1].evidence[1].page)))

----------------------------------------------------------------------------
(* C16 *)

\* The stages of ask_question in the order of its text.
StageOrder ==
    << "backfill", "retrieve", "retrieval_gate", "answer_generation",
       "answer_gates", "evidence_ranking", "validation" >>

\* The stage has run in the request.
StageRan(stage) == \E k \in 1..Len(req.stages) : req.stages[k] = stage

\* C16: the stages of a request run in the order back-fill, retrieve,
\* retrieval gate, answer generation, answer gates, evidence ranking,
\* validation, none twice and none before the one preceding it; the chat
\* model is called only after a retrieval that succeeded, returned chunks and
\* passed the distance gate; the ranker runs only after the citation, the
\* empty-answer and the uncertainty gate let the answer through; and a
\* response other than the canned one is returned only after validation,
\* every item of it mapping to a span of the document.
C16_StagesRunInOrder ==
    /\ req.stages = SubSeq(StageOrder, 1, Len(req.stages))
    /\ StageRan("answer_generation") =>
          /\ req.retrieved_ok
          /\ Len(req.retrieved) > 0
          /\ \E k \in 1..Len(req.retrieved) :
                /\ req.retrieved[k].distance # NULL
                /\ req.retrieved[k].distance[1] <= req.st.retrieval_max_vector_distance
    /\ StageRan("evidence_ranking") =>
          /\ req.replied
          /\ ~(req.st.require_llm_citations /\ Len(req.valid_citations) = 0)
          /\ Len(req.reply_answer) > 0
          /\ ~AnswerIsUncertain(req.reply_answer)
    /\ (req.pc = "done" /\ req.response # NULL /\ req.response[1] # CannedResponse) =>
          /\ req.stages = StageOrder
          /\ \A i \in 1..Len(req.response[1].evidence) :
                LET item == req.response[1].evidence[i]
                IN /\ item.bbox.x2 > item.bbox.x1 /\ item.bbox.y2 > item.bbox.y1
                   /\ ItemIntersectsSpan(spans, pages, req.doc, item)

\* A request that ran every stage and returned the model's answer with
\* evidence.
C16_Witness ==
    /\ req.pc = "done" /\ req.response # NULL
    /\ req.response[1] # CannedResponse
    /\ Len(req.response[1].evidence) > 0
    /\ req.stages = StageOrder

----------------------------------------------------------------------------
(* C21 *)

\* C21 as stated: of two consecutive windows the second ends after the first,
\* so no window lies wholly inside the one before it.
C21_WindowEndsStrictlyIncrease ==
    ChunkReturned =>
        \A k \in 1..(Len(chunker.windows) - 1) :
            chunker.windows[k + 1][2] > chunker.windows[k][2]

\* The span that closed window k does not fit behind the spans of window k
\* from index start on either (start lies inside window k).
ClosingSpanStillOverflows(k, start) ==
    LET end == chunker.windows[k][2]
    IN /\ start < end
       /\ SumSeq([i \in 1..(end - start) |-> chunker.lens[start + i]])
            + (end - start - 1) + 1 + chunker.lens[end + 1] > CHUNK_MAX_CHARS

\* C21: of two consecutive windows the second starts after the first starts
\* and ends at or after the end of the first; it ends at the very same index,
\* its span range wholly inside the range of the window before it, exactly
\* when the span that closed the first window does not fit behind the spans
\* the second window starts with.
C21_WindowEndsNeverDecrease ==
    ChunkReturned =>
        \A k \in 1..(Len(chunker.windows) - 1) :
            LET W == chunker.windows
            IN /\ W[k + 1][1] > W[k][1]
               /\ W[k + 1][2] >= W[k][2]
               /\ W[k + 1][2] = W[k][2] <=> ClosingSpanStillOverflows(k, W[k + 1][1])

\* A call returned a window that ends where the window before it ends, and
\* another that ends after the window before it.
C21_Witness ==
    /\ ChunkReturned
    /\ \E k \in 1..(Len(chunker.windows) - 1) :
          chunker.windows[k + 1][2] = chunker.windows[k][2]
    /\ \E k \in 1..(Len(chunker.windows) - 1) :
          chunker.windows[k + 1][2] > chunker.windows[k][2]

----------------------------------------------------------------------------
(* C22 *)

\* The span of the document that was added just before s: the one with the
\* greatest id below the id of s.
PreviousSpans(s) ==
    {p \in RowsOf(spans, s.document_id) :
        /\ p.id < s.id
        /\ \A q \in RowsOf(spans, s.document_id) : q.id < s.id => q.id <= p.id}

\* C22 as stated: the cursor runs through the whole document, so every span
\* but the first of its document starts one after the end of the span added
\* before it, and only the first span of the document starts at 0.
C22_CursorCrossesPages ==
    \A s \in spans :
        /\ \A p \in PreviousSpans(s) : s.char_start = p.char_end + 1
        /\ s.char_start = 0 <=> PreviousSpans(s) = {}

\* C22: the cursor is set to 0 at the start of every page: the first span of
\* each page starts at 0, every other span starts one after the end of the
\* span before it on the same page, and each span ends len(text) after its
\* start.
C22_CursorRestartsOnEveryPage ==
    \A s \in spans :
        /\ s.span_index = 0 => s.char_start = 0
        /\ \A p \in spans :
              (p.page_id = s.page_id /\ p.span_index + 1 = s.span_index) =>
                  s.char_start = p.char_end + 1
        /\ s.span_index > 0 =>
              \E p \in spans : p.page_id = s.page_id /\ p.span_index + 1 = s.span_index
        /\ s.char_end = s.char_start + WordLen(s.text)

\* A document of two pages with spans: the first span of its second page
\* starts at 0 and a later span of that page does not.
C22_Witness ==
    \E s, t \in spans :
        /\ s.document_id = t.document_id /\ s.page_id = t.page_id
        /\ s.page_number = 2
        /\ s.span_index = 0 /\ s.char_start = 0
        /\ t.span_index > 0 /\ t.char_start > 0
        /\ PreviousSpans(s) # {}

----------------------------------------------------------------------------
(* C23 *)

\* The arbitration of the specification on the metrics of the call, in exact
\* arithmetic.  Half(n, m) stands for "m is at least half of n" and
\* Reaches(a, b) for "a reaches b"; 100 * 100 * 18 * score(m) is computed.
Arbitration(Half(_, _), Reaches(_, _)) ==
    LET n == func.native_metrics[1]
        nr == func.native_metrics[2]
        o == func.ocr_metrics[1]
        or == func.ocr_metrics[2]
        score(count, ratio) ==
            (IF count >= 18 THEN 55 * 100 * 18 ELSE 55 * 100 * count) + 45 * ratio * 18
    IN IF o = 0 THEN FALSE
       ELSE IF n = 0 THEN TRUE
       ELSE \/ Reaches(score(o, or), score(n, nr) + 4 * 100 * 18)
            \/ n < 18 /\ o > n
            \/ Reaches(or, nr + 12) /\ o >= 3 /\ Half(n, o)

ExactHalf(n, m) == 2 * m >= n
FloorHalf(n, m) == m >= n \div 2
AtLeast(a, b) == a >= b
Above(a, b) == a > b

\* C23 as stated: _should_use_ocr returns true exactly when the arbitration
\* holds with ocr_count >= max(3, native_count / 2), the half taken exactly.
C23_ArbitrationWithExactHalf ==
    func.pc = "returned" => (func.result <=> Arbitration(ExactHalf, AtLeast))

\* C23: _should_use_ocr decides by the arbitration with ocr_count >=
\* max(3, floor(native_count / 2)), its two margins compared in floating
\* point: it returns true whenever the arbitration holds with each margin
\* exceeded, it returns true only if the arbitration holds with each margin
\* reached, and so it returns true exactly when the arbitration holds
\* unless a margin is met exactly.
C23_ArbitrationWithFloorHalf ==
    func.pc = "returned" =>
        /\ Arbitration(FloorHalf, Above) => func.result
        /\ func.result => Arbitration(FloorHalf, AtLeast)

\* OCR is chosen by the third condition alone, on an odd native count whose
\* exact half the OCR count does not reach.
C23_Witness ==
    /\ func.pc = "returned" /\ func.result
    /\ Arbitration(FloorHalf, Above) /\ ~Arbitration(ExactHalf, AtLeast)

----------------------------------------------------------------------------
(* C24 *)

LadderEnded == llm.pc \in {"returned", "raised"}

\* Request i was a chat completion refused with a bad request.
ChatRefused(i) ==
    /\ llm.requests[i].api = "chat"
    /\ llm.requests[i].outcome.kind = "bad_request"

\* Request i is followed by a chat completion without parameter p.
RetriedWithout(i, p) ==
    /\ i < Len(llm.requests)
    /\ llm.requests[i + 1].api = "chat"
    /\ p \notin llm.requests[i + 1].kwargs

ResponsesCalledAfter(i) ==
    \E j \in (i + 1)..Len(llm.requests) : llm.requests[j].api = "responses"

\* C24 as stated: every chat completion refused with a bad request that
\* mentions a parameter still in the request is retried without it, one retry
\* per parameter, and every bad request that signals the Responses API is
\* followed by a Responses API call.
C24_EveryRefusalIsRetried ==
    LadderEnded =>
        \A i \in 1..Len(llm.requests) :
            ChatRefused(i) =>
                /\ \A p \in OptionalParams :
                      p \in llm.requests[i].outcome.mentions \cap llm.requests[i].kwargs
                          => RetriedWithout(i, p)
                /\ SignalsResponsesApi(llm.requests[i].outcome.mentions)
                      => ResponsesCalledAfter(i)

\* C24: only the first chat completion is retried, once, without every
\* parameter its bad request mentions; a bad request on the retry, and a first
\* bad request mentioning no parameter of the request, lead to one Responses
\* API call when they signal it and are raised otherwise; a first bad request
\* that mentions a parameter is retried whether or not it signals the
\* Responses API.
C24_OnlyFirstRefusalIsRetried ==
    LadderEnded =>
        \A i \in 1..Len(llm.requests) :
            LET request == llm.requests[i]
                named == request.outcome.mentions \cap request.kwargs
                last == i = Len(llm.requests)
            IN ChatRefused(i) =>
                  IF i = 1 /\ named # {}
                  THEN /\ ~last
                       /\ llm.requests[2].api = "chat"
                       /\ llm.requests[2].kwargs = request.kwargs \ named
                  ELSE IF SignalsResponsesApi(request.outcome.mentions)
                  THEN /\ ~last
                       /\ llm.requests[i + 1].api = "responses"
                       /\ i + 1 = Len(llm.requests)
                  ELSE last /\ llm.pc = "raised"

\* A first refusal naming response_format was retried, the retry was refused
\* naming temperature, still part of it, and the error was raised.
C24_Witness ==
    /\ llm.pc = "raised"
    /\ Len(llm.requests) = 2
    /\ ChatRefused(1) /\ ChatRefused(2)
    /\ llm.requests[1].outcome.mentions = {"response_format"}
    /\ llm.requests[2].outcome.mentions = {"temperature"}
    /\ "temperature" \in llm.requests[2].kwargs

----------------------------------------------------------------------------
(* C25 *)

\* C25: one answer generation sends at most three requests: a chat
\* completion, at most one narrowed chat completion and at most one Responses
\* API call, in this order, and has returned or raised after the third; a
\* retry never carries the parameters of the request that just failed, and a
\* request that failed with an error other than a bad request is the last.
C25_AtMostThreeRequests ==
    llm.pc # "none" =>
        LET n == Len(llm.requests)
            chat == {i \in 1..n : llm.requests[i].api = "chat"}
            responses == {i \in 1..n : llm.requests[i].api = "responses"}
        IN /\ n <= 3
           /\ Cardinality(chat) <= 2 /\ Cardinality(responses) <= 1
           /\ n >= 1 => 1 \in chat
           /\ \A i \in chat, j \in responses : i < j
           /\ n = 3 => LadderEnded
           /\ LadderEnded => n >= 1
           /\ \A i \in 2..n :
                 llm.requests[i].api = "chat"
                     => llm.requests[i].kwargs # llm.requests[i - 1].kwargs
           /\ \A i \in 1..n :
                 llm.requests[i].outcome.kind = "error"
                     => i = n /\ llm.pc = "raised"
           /\ \A i \in 1..n :
                 llm.requests[i].outcome.kind = "ok"
                     => i = n /\ llm.pc = "returned"

\* A generation that sent three requests: the chat completion, the narrowed
\* retry and the Responses API call.
C25_Witness ==
    /\ LadderEnded
    /\ Len(llm.requests) = 3
    /\ llm.requests[2].api = "chat"
    /\ llm.requests[3].api = "responses"

----------------------------------------------------------------------------
(* C26 *)

FilterReturned == func.fn = "_filter_scored_evidence" /\ func.pc = "returned"

SortKey(entry) == << -entry.score, entry.item.page, entry.item.bbox.y1, entry.item.bbox.x1 >>

\* The items of the call ordered by (-score, page, y1, x1).
OrderedItems ==
    SortByKeys(func.scored_items,
               [i \in 1..Len(func.scored_items) |-> SortKey(func.scored_items[i])])

\* floor = max(min_absolute_score, best * relative_threshold), in the unit of
\* a score times 100.
ScoreFloor(best) ==
    Max(func.st.evidence_min_absolute_score * Scale * 100,
        best * func.st.evidence_relative_score_threshold)

\* The item passes the floor, and score / previous >= drop_ratio_stop.  The
\* ratio has no value when previous = 0: the item then passes, unless the
\* top score itself is not positive, in which case no item passes.
PassesWalk(score, previous, best) ==
    /\ score * 100 >= ScoreFloor(best)
    /\ IF previous > 0
       THEN score * 100 >= previous * func.st.evidence_drop_ratio_stop
       ELSE best > 0

\* The number of items the walk keeps: the top item and every item after it
\* up to the first that does not pass.
WalkLength(ordered) ==
    LET Stops(k) == ~PassesWalk(ordered[k].score, ordered[k - 1].score, ordered[1].score)
        stops == {k \in 2..Len(ordered) : Stops(k)}
    IN IF stops = {} THEN Len(ordered) ELSE MinOf(stops) - 1

\* C26: the result is a non-empty prefix of the items ordered by
\* (-score, page, y1, x1), so it holds the top item; it ends before the first
\* item after the top that falls below the floor or below drop_ratio_stop
\* times the score of the item before it, and is cut to
\* answer_max_evidence_items items when that setting is positive.
C26_FilterKeepsWalkedPrefix ==
    FilterReturned =>
        LET Holds(ordered, result, cut) ==
                /\ Len(result) >= 1
                /\ result = SubSeq(ordered, 1, Len(result))
                /\ \A k \in 1..(Len(result) - 1) :
                      ~LexLess(SortKey(result[k + 1]), SortKey(result[k]))
                /\ \A k \in 2..Len(result) :
                      PassesWalk(result[k].score, result[k - 1].score, result[1].score)
                /\ Len(result) = IF cut > 0 THEN Min(cut, WalkLength(ordered))
                                 ELSE WalkLength(ordered)
        IN Holds(OrderedItems, func.result, func.st.answer_max_evidence_items)

\* A call whose walk kept an item after the top one, stopped before the end
\* of the list, and another whose result was cut.
C26_Witness ==
    /\ FilterReturned
    /\ Len(func.result) = 2
    /\ Len(func.scored_items) = 3
    /\ func.st.answer_max_evidence_items = 0
    /\ func.st.evidence_drop_ratio_stop = 72
    /\ func.result[2].score * 100 = func.result[1].score * 72

----------------------------------------------------------------------------
(* C27 *)

LinesReturned == func.fn = "_chunk_evidence_items" /\ func.pc = "returned"

\* The seeds of the page: the two best lines with enough overlap, else the
\* best line.
SeedIndices ==
    LET overlapping ==
            SelectSeq(func.ranked_lines,
                      LAMBDA e : e[3].answer_overlap + e[3].question_overlap
                                 >= DefaultSettings.retrieval_min_keyword_overlap)
        selected == IF Len(overlapping) = 0 THEN SubSeq(func.ranked_lines, 1, 1)
                    ELSE overlapping
    IN {selected[i][2] : i \in 1..Min(2, Len(selected))}

\* C27 as stated: in normal mode a selected line is relevant or a seed, or it
\* is the only line selected.
C27_SelectionHonoursRelevance ==
    (LinesReturned /\ ~QuestionTargetsSignerEvidence(func.question)) =>
        \A k \in 1..Len(func.selected_indices) :
            \/ IsRelevant(func.line_candidates, func.selected_indices[k])
            \/ func.selected_indices[k] \in SeedIndices
            \/ Len(func.selected_indices) = 1

----------------------------------------------------------------------------
(* C28 *)

\* The model replied, citations are not required and no citation of the
\* reply names a context chunk.
UncitedReply ==
    /\ req.pc = "done" /\ req.replied
    /\ ~req.st.require_llm_citations
    /\ req.valid_citations = << >>

\* The retrieved chunk of smallest distance, ties by chunk_index.
IsTopRetrieved(chunk) ==
    /\ \E i \in 1..Len(req.retrieved) : req.retrieved[i] = chunk
    /\ \A i \in 1..Len(req.retrieved) :
          \/ chunk.distance[1] < req.retrieved[i].distance[1]
          \/ /\ chunk.distance[1] = req.retrieved[i].distance[1]
             /\ chunk.chunk_index <= req.retrieved[i].chunk_index

\* C28: when citations are not required and no citation maps back to a
\* context chunk, the response is not rejected for lack of citations; unless
\* the answer is empty or flagged uncertain, the evidence ranker runs on
\* exactly one cited chunk, the top-1 retrieved chunk.
C28_UncitedReplyRanksTopChunk ==
    UncitedReply =>
        /\ req.reason # "No valid citations were returned by the model."
        /\ req.reason # "No cited chunks were resolved to retrieval context."
        /\ IF StageRan("evidence_ranking")
           THEN /\ Len(req.ranked_chunks) = 1
                /\ IsTopRetrieved(req.ranked_chunks[1])
           ELSE req.reason \in {"Model answer text was empty.",
                                "Model flagged uncertainty."}

\* A grounded answer to a reply whose only citation is outside the context,
\* with more than one chunk in the context.
C28_Witness ==
    /\ UncitedReply
    /\ Len(req.cited_chunk_ids) > 0
    /\ Len(req.context) > 1
    /\ req.response # NULL
    /\ Len(req.response[1].evidence) > 0

----------------------------------------------------------------------------
(* C29 *)

ExpandReturned == func.fn = "_expand_chunks_for_evidence" /\ func.pc = "returned"

CitedIds == {func.chunks[k].id : k \in 1..Len(func.chunks)}

\* The positions of the result after the cited chunks.
NeighbourPositions == {p \in 1..Len(func.result) : func.result[p].id \notin CitedIds}

\* The position in the result of the document's chunk at an index, 0 if none.
PositionOfIndex(chunk_index) ==
    LET at == {p \in 1..Len(func.result) : func.result[p].chunk_index = chunk_index}
    IN IF at = {} THEN 0 ELSE MinOf(at)

\* The result has no id twice, begins with the cited chunks in their order,
\* and goes on with exactly the rows of the document one index above or below
\* a cited chunk, without distance.
ExpandsToNeighbours ==
    /\ \A p, q \in 1..Len(func.result) : func.result[p].id = func.result[q].id => p = q
    /\ LET first == DedupById(<< >>, func.chunks)
       IN /\ SubSeq(func.result, 1, Len(first)) = first
          /\ NeighbourPositions = (Len(first) + 1)..Len(func.result)
    /\ \A p \in NeighbourPositions :
          /\ \E r \in func.table :
                /\ r.document_id = func.document_id
                /\ func.result[p] = AsRetrieved(r, NULL)
          /\ \E k \in 1..Len(func.chunks) :
                Abs(func.result[p].chunk_index - func.chunks[k].chunk_index) = 1
    /\ \A r \in func.table, k \in 1..Len(func.chunks) :
          (r.document_id = func.document_id
              /\ Abs(r.chunk_index - func.chunks[k].chunk_index) = 1)
              => PositionOfIndex(r.chunk_index) > 0

\* C29 as stated: the result expands the cited chunks to their neighbours,
\* and the chunk after a cited chunk is placed before the chunk before it.
C29_NextNeighbourBeforePrevious ==
    ExpandReturned =>
        /\ ExpandsToNeighbours
        /\ \A k \in 1..Len(func.chunks) :
              LET next == PositionOfIndex(func.chunks[k].chunk_index + 1)
                  previous == PositionOfIndex(func.chunks[k].chunk_index - 1)
              IN (next \in NeighbourPositions /\ previous \in NeighbourPositions)
                     => next < previous

\* The first cited chunk that has the chunk at position p as a neighbour, and
\* the side it has it on: 0 for the next chunk, 1 for the previous one.
FirstCall(p) ==
    LET calls == {<<k, side>> \in (1..Len(func.chunks)) \X {0, 1} :
                     func.result[p].chunk_index
                         = func.chunks[k].chunk_index + (IF side = 0 THEN 1 ELSE -1)}
    IN CHOOSE c \in calls : \A other \in calls : c = other \/ LexLess(c, other)

\* C29: the result expands the cited chunks to their neighbours; the
\* neighbours stand in the order of the cited chunks, the chunk after a cited
\* chunk before the chunk before it, each at the place of the first cited
\* chunk it is a neighbour of.
C29_NeighboursInOrderOfFirstCitedChunk ==
    ExpandReturned =>
        /\ ExpandsToNeighbours
        /\ \A p, q \in NeighbourPositions :
              p < q => LexLess(FirstCall(p), FirstCall(q))

\* A call on two cited chunks two apart: the chunk between them is placed as
\* the next chunk of the first, before the next chunk of the second.
C29_Witness ==
    /\ ExpandReturned
    /\ Len(func.chunks) = 2
    /\ func.chunks[2].chunk_index = func.chunks[1].chunk_index + 2
    /\ PositionOfIndex(func.chunks[1].chunk_index + 1) = 3
    /\ PositionOfIndex(func.chunks[2].chunk_index + 1) = 4

----------------------------------------------------------------------------
(* C30 *)

\* C30: a call of the back-fill that ended with a failure of the provider has
\* written and locked no row: the committed chunks without an embedding are
\* those its select returned, the chunks of batches embedded before the
\* failure included.
C30_FailedBackfillCommitsNothing ==
    fill.calls["a"].pc = "raised" =>
        /\ fill.calls["a"].rows_written = 0
        /\ fill.calls["a"].flushed = 0
        /\ fill.locks = {}
        /\ MissingChunks(chunks, FillDoc) = SeqToSet(fill.calls["a"].missing_chunks)

\* A call that failed on its second batch, after a first batch of 64 chunks
\* was embedded.
C30_Witness ==
    /\ fill.calls["a"].pc = "raised"
    /\ fill.calls["a"].provider_calls = 2
    /\ Len(fill.calls["a"].missing_chunks) > BATCH_SIZE

============================================================================
